---- MODULE Spec2Model ----
(***************************************************************************)
(* Model of the admission-control and token service of                     *)
(* src/Rate-limiter/main.go: the token-bucket rate limiter (RateLimiter,    *)
(* TokenBucket) and the token issuance / validation engine (AddToken,       *)
(* get_token, CheckToken and the POST token/ and GET check/ handlers).      *)
(* Also GetAllUsers of the same file, and the transcoding service with      *)
(* in-memory job state of src/unnamed/part_004 (package transcode:          *)
(* StartTranscoding, processTranscodingJobs, processJob).                   *)
(*                                                                         *)
(* Numbers.  float64 token counts are kept exactly as integers counted in   *)
(* 1/Unit of a token, time.Time values as integer clock ticks, and a fill   *)
(* rate as token units per tick, so that elapsed * fillRate is the exact    *)
(* product the code computes.                                              *)
(***************************************************************************)
EXTENDS Integers, Sequences, FiniteSets, TLC

\* ------------------------------------------------------------------------
\* Bounds of the model
\* ------------------------------------------------------------------------
Unit == 2        \* token units per whole token (resolution of a float64 count)
MaxTime == 2     \* last clock tick
MaxCalls == 4    \* IsAllowed calls started in one behaviour
MaxRequests == 3 \* token/ and check/ requests started in one behaviour
MaxTokens == 2   \* rows the token table ever generates
TTL == 1         \* lifetime of a token row, in ticks
MaxLoads == 3    \* loads of the user table GetAllUsers makes in one behaviour
MaxStarts == 2   \* StartTranscoding calls in one behaviour
MaxJobs == 2     \* target resolutions, so jobs, of one StartTranscoding call

\* The concurrent request tasks (one goroutine per request in flight).
Procs == {"p1", "p2"}
\* Client keys: the client id "c1", which may take every call, and the IP
\* address of a peer, which takes at most one.
ClientIP == "peer"
Keys == {"c1", ClientIP}
KeyBudget(k) == IF k = "c1" THEN MaxCalls ELSE 1
None == "none"   \* no holder of a mutex
NoKey == ""
NoBucket == 0    \* a Load that found nothing / a nil *TokenBucket

\* Values RATE_LIMIT_CAPACITY / RATE_LIMIT_REFILL_RATE can parse to
\* (strconv.ParseFloat accepts negative, zero and fractional numbers):
\* -1, 1/2, 1 and 2 tokens; -1, 0, 1 and Unit token units per tick.
Capacities == {-Unit, 1, Unit, 2 * Unit}
FillRates == {-1, 0, 1, Unit}

VARIABLES
    now,         \* time.Now(): the monotonic clock, in ticks
    capacity,    \* RateLimiter.capacity
    fillRate,    \* RateLimiter.fillRate
    limiters,    \* RateLimiter.limiters: key -> bucket (index in buckets) or NoBucket
    buckets,     \* the heap of TokenBucket objects, in allocation order
    globalMux,   \* RateLimiter.globalMux: holder or None
    rlpc,        \* position of each task inside IsAllowed
    rlkey,       \* clientID argument of the running IsAllowed
    rlbucket,    \* the *TokenBucket getLimiter returned
    rlfirst,     \* history: the call found no bucket on its first look-up
    log,         \* history: per key, the Allow calls in lock order
    ncalls,      \* history: number of IsAllowed calls started
    rlloc,       \* Allow taken step by step: the clock reading and the result
    gwpc,        \* position of each task inside the rate limiting middleware
    gwreq,       \* the HTTP request a task is serving through the middleware
    users,       \* the users sync.Map: client_id -> User
    tokens,      \* the tokens sync.Map: access token -> TokenInfo
    tokenTable,  \* the rows of the store's token table
    uniquePair,  \* the table rejects a second row for a (client_id, access_scope)
    nextToken,   \* number of access tokens the store has generated
    tkpc,        \* position of each task inside its token/ or check/ request
    tkreq,       \* the request a task is serving (prior: history, the Issue
                 \* results that had returned the token when a check/ began,
                 \* or had answered the pair when a token/ request began)
    tkrow,       \* the row the task's last SELECT returned
    tkfallback,  \* the task is in AddToken's get_token after a failed insert
    tkres,       \* the outcome of the task's request
    tkconc,      \* history: tasks whose Issue for the same pair overlapped
    issued,      \* history: every row ever inserted, by access token
    granted,     \* history: <<token, client, scope>> of every successful Issue
    nreqs,       \* history: number of requests started
    bootpc,      \* position of main inside GetAllUsers, "serving" after it
    userTable,   \* the client ids of the rows of the store's user table
    bootseen,    \* the rows the last load of GetAllUsers read
    bootloads,   \* history: number of loads GetAllUsers has made
    jobs,        \* transcode.Service.jobs: video id -> jobState or NoJobState
    tcjob,       \* the TranscodingJob objects each StartTranscoding call made
    tcstored,    \* the storage's copy of each call's jobs
    tcret,       \* what each StartTranscoding call returned
    tcvideo,     \* the videoID argument of each StartTranscoding call
    tcpc,        \* position of each call's processTranscodingJobs goroutine
    tcidx,       \* the job the goroutine's loop is at
    tcstate,     \* the jobState the goroutine read after its loop
    tcfinal,     \* finalStatus of the goroutine
    tcnotes      \* history: statuses passed to NotifyTranscodingComplete

rlvars == <<capacity, fillRate, limiters, buckets, globalMux, rlpc, rlkey,
            rlbucket, rlfirst, log, ncalls, rlloc>>
gwvars == <<gwpc, gwreq>>
tkvars == <<users, tokens, tokenTable, uniquePair, nextToken, tkpc, tkreq,
            tkrow, tkfallback, tkres, tkconc, issued, granted, nreqs>>
bootvars == <<bootpc, userTable, bootseen, bootloads>>
tcvars == <<jobs, tcjob, tcstored, tcret, tcvideo, tcpc, tcidx, tcstate,
            tcfinal, tcnotes>>
restvars == <<bootvars, tcvars>>
vars == <<now, rlvars, tkvars, gwvars, restvars>>

Min(a, b) == IF a < b THEN a ELSE b
Max(a, b) == IF a > b THEN a ELSE b

\* ------------------------------------------------------------------------
\* Rate limiter
\* ------------------------------------------------------------------------

\* main(): the limiter is built from the parsed environment values.
NewRateLimiter(c, r) ==
    /\ capacity = c
    /\ fillRate = r
    /\ limiters = [k \in Keys |-> NoBucket]
    /\ globalMux = None

\* The TokenBucket literal of getLimiter.
NewBucket(k, t) ==
    [key |-> k, tokens |-> capacity, capacity |-> capacity,
     fillRate |-> fillRate, lastRefillTime |-> t, mutex |-> None,
     created |-> t]

\* Mutant: the first look-up never finds the bucket.
LimiterExists_Never(k) == FALSE

\* rl.limiters.Load(clientID) on the fast path.
LimiterExists(k) == limiters[k] # NoBucket

\* Mutant: the look-up under globalMux is missing (no double check).
LimiterExistsLocked_NoRecheck(k) == FALSE

\* rl.limiters.Load(clientID) again, under globalMux.
LimiterExistsLocked(k) == limiters[k] # NoBucket

\* Mutant: refill without the cap at capacity.
refill_NoClamp(tb, t) ==
    LET tokensToAdd == (t - tb.lastRefillTime) * tb.fillRate
    IN  IF tokensToAdd > 0
        THEN [tb EXCEPT !.tokens = tb.tokens + tokensToAdd, !.lastRefillTime = t]
        ELSE tb

\* TokenBucket.refill at clock reading t.
refill(tb, t) ==
    LET elapsedTime == t - tb.lastRefillTime
        tokensToAdd == elapsedTime * tb.fillRate
        sum == tb.tokens + tokensToAdd
    IN  IF tokensToAdd > 0
        THEN [tb EXCEPT !.tokens = IF sum > tb.capacity THEN tb.capacity ELSE sum,
                        !.lastRefillTime = t]
        ELSE tb

\* Mutant: any positive fraction of a token admits a request.
HasToken_AnyFraction(tb) == tb.tokens > 0

\* The admission test of TokenBucket.Allow.
HasToken(tb) == tb.tokens >= Unit

\* Mutant: the bucket's mutex excludes nobody.
MutexFree_Always(tb) == TRUE

\* Mutant: a bucket's mutex is never handed to a caller.
MutexFree_Never(tb) == FALSE

\* tb.mutex.Lock() can return.
MutexFree(tb) == tb.mutex = None

\* The locals of an Allow call: the clock reading of refill, the token count
\* at the admission test and the value the call returns.
NoLoc == [t |-> -1, pre |-> 0, ok |-> FALSE]

\* IsAllowed(clientID) is called by task p; getLimiter's first look-up
\* returns the bucket or sends the task for the global lock.
IsAllowedBody(p, k) ==
    /\ rlpc[p] = "idle"
    /\ ncalls < MaxCalls
    /\ Len(log[k]) + Cardinality({q \in Procs : rlkey[q] = k}) < KeyBudget(k)
    /\ ncalls' = ncalls + 1
    /\ rlkey' = [rlkey EXCEPT ![p] = k]
    /\ IF LimiterExists(k)
       THEN /\ rlbucket' = [rlbucket EXCEPT ![p] = limiters[k]]
            /\ rlpc' = [rlpc EXCEPT ![p] = "allow"]
            /\ rlfirst' = [rlfirst EXCEPT ![p] = FALSE]
       ELSE /\ rlpc' = [rlpc EXCEPT ![p] = "glock"]
            /\ rlfirst' = [rlfirst EXCEPT ![p] = TRUE]
            /\ rlbucket' = [rlbucket EXCEPT ![p] = NoBucket]
    /\ UNCHANGED <<restvars, rlloc, tkvars, now, capacity, fillRate, limiters, buckets, globalMux, log>>

\* IsAllowed called directly, with no HTTP request around it.
IsAllowed(p, k) == IsAllowedBody(p, k) /\ UNCHANGED gwvars

\* getLimiter: rl.globalMux.Lock().
getLimiterLock(p) ==
    /\ rlpc[p] = "glock"
    /\ globalMux = None
    /\ globalMux' = p
    /\ rlpc' = [rlpc EXCEPT ![p] = "create"]
    /\ UNCHANGED <<restvars, gwvars, rlloc, tkvars, now, capacity, fillRate, limiters, buckets, rlkey,
                   rlbucket, rlfirst, log, ncalls>>

\* getLimiter under globalMux: the second look-up, the creation and Store of
\* a new bucket when it is still absent, and the deferred Unlock.
getLimiterCreate(p) ==
    /\ rlpc[p] = "create"
    /\ globalMux = p
    /\ IF LimiterExistsLocked(rlkey[p])
       THEN /\ rlbucket' = [rlbucket EXCEPT ![p] = limiters[rlkey[p]]]
            /\ UNCHANGED <<buckets, limiters>>
       ELSE /\ buckets' = Append(buckets, NewBucket(rlkey[p], now))
            /\ limiters' = [limiters EXCEPT ![rlkey[p]] = Len(buckets) + 1]
            /\ rlbucket' = [rlbucket EXCEPT ![p] = Len(buckets) + 1]
    /\ globalMux' = None
    /\ rlpc' = [rlpc EXCEPT ![p] = "allow"]
    /\ UNCHANGED <<restvars, gwvars, rlloc, tkvars, now, capacity, fillRate, rlkey, rlfirst, log, ncalls>>

\* Allow: tb.mutex.Lock().
AllowLock(p) ==
    /\ rlpc[p] = "allow"
    /\ MutexFree(buckets[rlbucket[p]])
    /\ buckets' = [buckets EXCEPT ![rlbucket[p]].mutex = p]
    /\ rlpc' = [rlpc EXCEPT ![p] = "locked"]
    /\ UNCHANGED <<restvars, gwvars, rlloc, tkvars, now, capacity, fillRate, limiters, globalMux, rlkey,
                   rlbucket, rlfirst, log, ncalls>>

\* Allow under the bucket's mutex: refill, the admission test, the decrement
\* and the deferred Unlock.  The history entry keeps the clock reading of
\* refill, the token count at the admission test (pre) and after the call
\* (post), and lastRefillTime after the call (lr).
AllowBody(p) ==
    /\ rlpc[p] = "locked"
    /\ LET b == rlbucket[p]
           tb == refill(buckets[b], now)
           ok == HasToken(tb)
           after == IF ok THEN [tb EXCEPT !.tokens = tb.tokens - Unit] ELSE tb
       IN  /\ buckets' = [buckets EXCEPT ![b] = [after EXCEPT !.mutex = None]]
           /\ log' = [log EXCEPT ![rlkey[p]] = Append(@,
                        [t |-> now, ok |-> ok, pre |-> tb.tokens,
                         post |-> after.tokens, lr |-> after.lastRefillTime,
                         first |-> rlfirst[p], b |-> b])]
    /\ rlpc' = [rlpc EXCEPT ![p] = "idle"]
    /\ rlkey' = [rlkey EXCEPT ![p] = NoKey]
    /\ rlbucket' = [rlbucket EXCEPT ![p] = NoBucket]
    /\ rlfirst' = [rlfirst EXCEPT ![p] = FALSE]
    /\ UNCHANGED <<restvars, rlloc, tkvars, now, capacity, fillRate, limiters, globalMux, ncalls>>

\* Allow returning to a direct caller of IsAllowed.
Allow(p) == AllowBody(p) /\ UNCHANGED gwvars

\* Allow taken statement by statement, under the bucket's mutex.
\* tb.refill(): the clock is read and the bucket refilled.
AllowRefill(p) ==
    /\ rlpc[p] = "locked"
    /\ LET b == rlbucket[p]
           tb == refill(buckets[b], now)
       IN  /\ buckets' = [buckets EXCEPT ![b] = tb]
           /\ rlloc' = [rlloc EXCEPT ![p] =
                          [t |-> now, pre |-> tb.tokens, ok |-> FALSE]]
    /\ rlpc' = [rlpc EXCEPT ![p] = "refilled"]
    /\ UNCHANGED <<restvars, gwvars, tkvars, now, capacity, fillRate, limiters, globalMux,
                   rlkey, rlbucket, rlfirst, log, ncalls>>

\* if tb.tokens >= 1
AllowTest(p) ==
    /\ rlpc[p] = "refilled"
    /\ rlpc' = [rlpc EXCEPT ![p] =
                   IF HasToken(buckets[rlbucket[p]]) THEN "take" ELSE "return"]
    /\ UNCHANGED <<restvars, gwvars, tkvars, now, capacity, fillRate, limiters, buckets,
                   globalMux, rlkey, rlbucket, rlfirst, log, ncalls, rlloc>>

\* Mutant: the decrement takes a token from every bucket.
AllowTake_FromEveryBucket(p) ==
    /\ rlpc[p] = "take"
    /\ buckets' = [b \in DOMAIN buckets |->
                      [buckets[b] EXCEPT !.tokens = @ - Unit]]
    /\ rlloc' = [rlloc EXCEPT ![p].ok = TRUE]
    /\ rlpc' = [rlpc EXCEPT ![p] = "return"]
    /\ UNCHANGED <<restvars, gwvars, tkvars, now, capacity, fillRate, limiters,
                   globalMux, rlkey, rlbucket, rlfirst, log, ncalls>>

\* tb.tokens--; return true
AllowTake(p) ==
    /\ rlpc[p] = "take"
    /\ buckets' = [buckets EXCEPT ![rlbucket[p]].tokens = @ - Unit]
    /\ rlloc' = [rlloc EXCEPT ![p].ok = TRUE]
    /\ rlpc' = [rlpc EXCEPT ![p] = "return"]
    /\ UNCHANGED <<restvars, gwvars, tkvars, now, capacity, fillRate, limiters, globalMux,
                   rlkey, rlbucket, rlfirst, log, ncalls>>

\* The deferred tb.mutex.Unlock() and the return of the call.
AllowUnlock(p) ==
    /\ rlpc[p] = "return"
    /\ LET b == rlbucket[p]
       IN  /\ buckets' = [buckets EXCEPT ![b].mutex = None]
           /\ log' = [log EXCEPT ![rlkey[p]] = Append(@,
                        [t |-> rlloc[p].t, ok |-> rlloc[p].ok,
                         pre |-> rlloc[p].pre, post |-> buckets[b].tokens,
                         lr |-> buckets[b].lastRefillTime,
                         first |-> rlfirst[p], b |-> b])]
    /\ rlpc' = [rlpc EXCEPT ![p] = "idle"]
    /\ rlkey' = [rlkey EXCEPT ![p] = NoKey]
    /\ rlbucket' = [rlbucket EXCEPT ![p] = NoBucket]
    /\ rlfirst' = [rlfirst EXCEPT ![p] = FALSE]
    /\ rlloc' = [rlloc EXCEPT ![p] = NoLoc]
    /\ UNCHANGED <<restvars, gwvars, tkvars, now, capacity, fillRate, limiters, globalMux,
                   ncalls>>

\* Wall-clock time passes.
Tick ==
    /\ now < MaxTime
    /\ now' = now + 1
    /\ UNCHANGED <<restvars, rlvars, tkvars, gwvars>>

\* ------------------------------------------------------------------------
\* Token service
\* ------------------------------------------------------------------------

NoToken == 0     \* the empty access token ""
TokenValues == 1..(MaxTokens + 1)   \* MaxTokens + 1 is never generated

\* The client registry GetAllUsers loaded (client_id, client_secret, scope).
Registry ==
    [c \in {"c1", "c2"} |->
        IF c = "c1"
        THEN [ClientSecret |-> "s1", Scopes |-> <<"read", "write">>]
        ELSE [ClientSecret |-> "s2", Scopes |-> <<"read">>]]

Form(c, sec, sc, g) ==
    [ClientId |-> c, ClientSecret |-> sec, Scope |-> sc, GrantType |-> g]

\* The forms a token/ request carries: the two valid ones, and one with a
\* wrong grant type, an unknown client, a wrong secret, a scope the client
\* may not ask for, and a wrong secret together with such a scope.
Forms ==
    {Form("c1", "s1", "write", "client_credentials"),
     Form("c2", "s2", "read", "client_credentials"),
     Form("c1", "s1", "write", "password"),
     Form("nobody", "s1", "read", "client_credentials"),
     Form("c1", "s2", "write", "client_credentials"),
     Form("c2", "s2", "write", "client_credentials"),
     Form("c2", "s1", "write", "client_credentials")}

NoInfo == [ClientID |-> "", AccessScope |-> "", ExpirationTime |-> -1]
NoRow == [access_token |-> NoToken, client_id |-> "", access_scope |-> "",
          expiration_time |-> -1]
\* (fault: history, a Store call of the request ended with an error.)
NoReq == [op |-> "", ClientId |-> "", Scope |-> "", ClientSecret |-> "",
          GrantType |-> "", token |-> NoToken, prior |-> {}, fault |-> FALSE]
\* (at: the clock reading of the decision; found: the SELECT of a check/
\* scanned a row; cached: the answer was taken from user.Tokens or from the
\* tokens map, with no Store call.)
NoRes == [op |-> "", status |-> "", token |-> NoToken, client |-> "",
          scope |-> "", at |-> -1, found |-> FALSE, cached |-> FALSE]
\* No HTTP request.
NoRequest == [path |-> "", form |-> Form("", "", "", ""), token |-> NoToken,
              key |-> NoKey, allowed |-> FALSE]

\* time.Time comparisons.
Before(a, b) == a < b
After(a, b) == a > b

\* GetAllUsers: user.Tokens = make([]string, len(user.Scopes)).
LoadedUser(u) ==
    [ClientSecret |-> u.ClientSecret, Scopes |-> u.Scopes,
     Tokens |-> [i \in 1..Len(u.Scopes) |-> NoToken]]

\* users.Load(client_id) finds the client.
UserLoaded(c) == c \in DOMAIN users

\* Mutant: the secret is not compared.
SecretMatches_Unchecked(user, f) == TRUE

\* The secret comparison of the token/ handler.
SecretMatches(user, f) == f.ClientSecret = user.ClientSecret

\* Mutant: every scope is accepted.
ScopePermitted_Always(user, scope) == TRUE

\* The scope loop of the token/ handler.
ScopePermitted(user, scope) ==
    \E i \in 1..Len(user.Scopes) : user.Scopes[i] = scope

\* The task's request is finished with outcome res.
Finish(p, res) ==
    /\ tkpc' = [tkpc EXCEPT ![p] = "done"]
    /\ tkres' = [tkres EXCEPT ![p] = res]

\* A successful AddToken: the handler answers with the token.
IssueOk(p, tok) ==
    /\ Finish(p, [op |-> "issue", status |-> "ok", token |-> tok,
                  client |-> tkreq[p].ClientId, scope |-> tkreq[p].Scope,
                  at |-> now, found |-> FALSE,
                  cached |-> tkpc[p] = "addtoken"])
    /\ granted' = granted \cup {<<tok, tkreq[p].ClientId, tkreq[p].Scope>>}

\* The handler answers with an error.
IssueError(p, f, status) ==
    Finish(p, [op |-> "issue", status |-> status, token |-> NoToken,
               client |-> f.ClientId, scope |-> f.Scope, at |-> now,
               found |-> FALSE, cached |-> FALSE])

IssuePcs == {"addtoken", "get_token", "get_check", "insert"}

\* The tasks that are inside AddToken for the pair of form f.
Overlapping(p, f) ==
    {q \in Procs \ {p} :
        /\ tkpc[q] \in IssuePcs
        /\ tkreq[q].ClientId = f.ClientId
        /\ tkreq[q].Scope = f.Scope}

\* POST token/: the handler up to the call of AddToken.  An unknown client
\* makes item.(User) panic on a nil interface.
TokenHandlerBody(p, f) ==
    /\ tkpc[p] = "idle"
    /\ nreqs < MaxRequests
    /\ nreqs' = nreqs + 1
    /\ tkreq' = [tkreq EXCEPT ![p] =
                    [op |-> "issue", ClientId |-> f.ClientId, Scope |-> f.Scope,
                     ClientSecret |-> f.ClientSecret, GrantType |-> f.GrantType,
                     token |-> NoToken,
                     prior |-> {g \in granted : g[2] = f.ClientId /\ g[3] = f.Scope},
                     fault |-> FALSE]]
    /\ IF f.GrantType # "client_credentials"
       THEN IssueError(p, f, "Incorrect grant type") /\ UNCHANGED tkconc
       ELSE IF ~UserLoaded(f.ClientId)
       THEN IssueError(p, f, "panic") /\ UNCHANGED tkconc
       ELSE IF ~SecretMatches(users[f.ClientId], f)
       THEN IssueError(p, f, "Incorrect client credentials") /\ UNCHANGED tkconc
       ELSE IF ~ScopePermitted(users[f.ClientId], f.Scope)
       THEN IssueError(p, f, "Wrong scope") /\ UNCHANGED tkconc
       ELSE /\ tkpc' = [tkpc EXCEPT ![p] = "addtoken"]
            /\ tkconc' = [q \in Procs |->
                            IF q = p THEN Overlapping(p, f)
                            ELSE IF q \in Overlapping(p, f)
                                 THEN tkconc[q] \cup {p} ELSE tkconc[q]]
            /\ UNCHANGED tkres
    /\ UNCHANGED <<restvars, now, rlvars, users, tokens, tokenTable, uniquePair,
                   nextToken, tkrow, tkfallback, issued, granted>>

\* The token/ handler invoked directly.
TokenHandler(p, f) == TokenHandlerBody(p, f) /\ UNCHANGED gwvars

\* The slots of user.Tokens AddToken's loop accepts for the scope.
CachedSlots(user, scope) ==
    {i \in 1..Len(user.Tokens) :
        user.Scopes[i] = scope /\ user.Tokens[i] # NoToken}

FirstOf(S) == CHOOSE i \in S : \A j \in S : i <= j

\* AddToken: the look-up in the client's cached tokens.
AddTokenCache(p) ==
    /\ tkpc[p] = "addtoken"
    /\ LET user == users[tkreq[p].ClientId]
           hits == CachedSlots(user, tkreq[p].Scope)
       IN  IF UserLoaded(tkreq[p].ClientId) /\ hits # {}
           THEN /\ IssueOk(p, user.Tokens[FirstOf(hits)])
                /\ UNCHANGED tkfallback
           ELSE /\ tkpc' = [tkpc EXCEPT ![p] = "get_token"]
                /\ tkfallback' = [tkfallback EXCEPT ![p] = FALSE]
                /\ UNCHANGED <<tkres, granted>>
    /\ UNCHANGED <<restvars, gwvars, now, rlvars, users, tokens, tokenTable, uniquePair,
                   nextToken, tkreq, tkrow, tkconc, issued, nreqs>>

\* The rows get_token's SELECT matches.
RowsOfPair(c, scope) ==
    {r \in tokenTable : r.client_id = c /\ r.access_scope = scope}

\* get_token has returned tok to AddToken: a token is the answer; without
\* one AddToken inserts, or, after a failed insert, hands "" to the handler.
GetTokenReturns(p, tok) ==
    IF tok # NoToken
    THEN IssueOk(p, tok)
    ELSE IF tkfallback[p]
    THEN IssueError(p, tkreq[p], "Internal server error") /\ UNCHANGED granted
    ELSE /\ tkpc' = [tkpc EXCEPT ![p] = "insert"]
         /\ UNCHANGED <<tkres, granted>>

\* get_token: the SELECT by client_id and access_scope; QueryRow keeps the
\* first row the store returns.
GetTokenQuery(p) ==
    /\ tkpc[p] = "get_token"
    /\ LET rows == RowsOfPair(tkreq[p].ClientId, tkreq[p].Scope)
       IN  IF rows = {}
           THEN GetTokenReturns(p, NoToken) /\ UNCHANGED tkrow
           ELSE /\ \E r \in rows : tkrow' = [tkrow EXCEPT ![p] = r]
                /\ tkpc' = [tkpc EXCEPT ![p] = "get_check"]
                /\ UNCHANGED <<tkres, granted>>
    /\ UNCHANGED <<restvars, gwvars, now, rlvars, users, tokens, tokenTable, uniquePair,
                   nextToken, tkreq, tkfallback, tkconc, issued, nreqs>>

\* Mutant: get_token deletes the row it found whether expired or not.
RowExpired_Always(row, t) == TRUE

\* exp_time.Before(time.Now()) of get_token.
RowExpired(row, t) == Before(row.expiration_time, t)

\* get_token: the expiry test and the DELETE of an expired row.
GetTokenCheck(p) ==
    /\ tkpc[p] = "get_check"
    /\ IF RowExpired(tkrow[p], now)
       THEN /\ tokenTable' = {r \in tokenTable :
                                r.access_token # tkrow[p].access_token}
            /\ GetTokenReturns(p, NoToken)
       ELSE /\ GetTokenReturns(p, tkrow[p].access_token)
            /\ UNCHANGED tokenTable
    /\ UNCHANGED <<restvars, gwvars, now, rlvars, users, tokens, uniquePair, nextToken, tkreq,
                   tkrow, tkfallback, tkconc, issued, nreqs>>

\* The INSERT is refused: the table already holds a row for the pair and
\* enforces one row per pair.
InsertFails(c, scope) == uniquePair /\ RowsOfPair(c, scope) # {}

\* The row the store creates for an INSERT at time t.
NewRow(c, scope, t) ==
    [access_token |-> nextToken + 1, client_id |-> c, access_scope |-> scope,
     expiration_time |-> t + TTL]

\* AddToken: the INSERT ... RETURNING access_token; on an error get_token
\* is asked again.
AddTokenInsert(p) ==
    /\ tkpc[p] = "insert"
    /\ IF InsertFails(tkreq[p].ClientId, tkreq[p].Scope)
       THEN /\ tkpc' = [tkpc EXCEPT ![p] = "get_token"]
            /\ tkfallback' = [tkfallback EXCEPT ![p] = TRUE]
            /\ UNCHANGED <<tokenTable, nextToken, issued, tkres, granted>>
       ELSE /\ nextToken < MaxTokens
            /\ LET row == NewRow(tkreq[p].ClientId, tkreq[p].Scope, now)
               IN  /\ tokenTable' = tokenTable \cup {row}
                   /\ issued' = Append(issued, row)
                   /\ IssueOk(p, row.access_token)
            /\ nextToken' = nextToken + 1
            /\ UNCHANGED tkfallback
    /\ UNCHANGED <<restvars, gwvars, now, rlvars, users, tokens, uniquePair, tkreq, tkrow,
                   tkconc, nreqs>>

\* The outcome of a check/ request.
CheckAnswer(p, tok, status, id, scope, found) ==
    [op |-> "check", status |-> status, token |-> tok, client |-> id,
     scope |-> scope, at |-> now, found |-> found,
     cached |-> tkpc[p] = "idle" /\ status = "ok"]

\* CheckToken returns and the handler answers.
CheckResult(p, tok, status, id, scope, found) ==
    Finish(p, CheckAnswer(p, tok, status, id, scope, found))

\* Mutant: a cached entry is trusted without looking at its expiration.
CacheEntryValid_Always(info, t) == TRUE

\* tim.After(time.Now()) of CheckToken.
CacheEntryValid(info, t) == After(info.ExpirationTime, t)

\* GET check/ and CheckToken's cache look-up: an unexpired entry answers the
\* request, an expired one is deleted from the cache.
CheckTokenCacheBody(p, tok) ==
    /\ tkpc[p] = "idle"
    /\ nreqs < MaxRequests
    /\ nreqs' = nreqs + 1
    /\ tkreq' = [tkreq EXCEPT ![p] =
                    [NoReq EXCEPT !.op = "check", !.token = tok,
                                  !.prior = {g \in granted : g[1] = tok}]]
    /\ IF tokens[tok] # NoInfo /\ CacheEntryValid(tokens[tok], now)
       THEN /\ CheckResult(p, tok, "ok", tokens[tok].ClientID,
                           tokens[tok].AccessScope, FALSE)
            /\ UNCHANGED tokens
       ELSE /\ tokens' = [tokens EXCEPT ![tok] = NoInfo]
            /\ tkpc' = [tkpc EXCEPT ![p] = "check_query"]
            /\ UNCHANGED tkres
    /\ UNCHANGED <<restvars, now, rlvars, users, tokenTable, uniquePair, nextToken,
                   tkrow, tkfallback, tkconc, issued, granted>>

\* The check/ handler invoked directly.
CheckTokenCache(p, tok) == CheckTokenCacheBody(p, tok) /\ UNCHANGED gwvars

\* The errors CheckToken returns.
ErrTokenExpired == "token expired"

\* Mutant: an absent row is reported as an expired token.
ErrNoToken_AsExpired == ErrTokenExpired

ErrNoToken == "nonexistent token"

\* CheckToken: the SELECT by access_token.
CheckTokenQuery(p) ==
    /\ tkpc[p] = "check_query"
    /\ LET rows == {r \in tokenTable : r.access_token = tkreq[p].token}
       IN  IF rows = {}
           THEN /\ CheckResult(p, tkreq[p].token, ErrNoToken, "", "",
                               FALSE)
                /\ UNCHANGED tkrow
           ELSE /\ \E r \in rows : tkrow' = [tkrow EXCEPT ![p] = r]
                /\ tkpc' = [tkpc EXCEPT ![p] = "check_expiry"]
                /\ UNCHANGED tkres
    /\ UNCHANGED <<restvars, gwvars, now, rlvars, users, tokens, tokenTable, uniquePair,
                   nextToken, tkreq, tkfallback, tkconc, issued, granted, nreqs>>

\* Mutant: the row read from the store is never found expired.
StoredRowExpired_Never(row, t) == FALSE

\* Mutant: a row counts as expired at the instant of its expiration time.
StoredRowExpired_AtExpiry(row, t) == row.expiration_time <= t

\* exp_time.Before(time.Now()) of CheckToken.
StoredRowExpired(row, t) == Before(row.expiration_time, t)

\* Mutant: setting the token of the scope also blanks the client's secret.
SetUserToken_BlanksSecret(us, id, scope, tok) ==
    IF id \in DOMAIN us
    THEN LET slots == {i \in 1..Len(us[id].Tokens) : us[id].Scopes[i] = scope}
         IN  IF slots = {} THEN us
             ELSE [us EXCEPT ![id].Tokens[FirstOf(slots)] = tok,
                             ![id].ClientSecret = ""]
    ELSE us

\* "Set new token for (user, scope)": the first slot of the scope.
SetUserToken(us, id, scope, tok) ==
    IF id \in DOMAIN us
    THEN LET slots == {i \in 1..Len(us[id].Tokens) : us[id].Scopes[i] = scope}
         IN  IF slots = {} THEN us
             ELSE [us EXCEPT ![id].Tokens[FirstOf(slots)] = tok]
    ELSE us

\* Mutant: the cached entry loses the scope of the row.
TokenInfoOf_NoScope(row) ==
    [ClientID |-> row.client_id, AccessScope |-> "",
     ExpirationTime |-> row.expiration_time]

\* TokenInfo{id, scope, exp_time} of the row CheckToken has scanned.
TokenInfoOf(row) ==
    [ClientID |-> row.client_id, AccessScope |-> row.access_scope,
     ExpirationTime |-> row.expiration_time]

\* CheckToken: the expiry test of the row, then the Store into the token
\* cache; the values to return are decided here.
CheckTokenExpiry(p) ==
    /\ tkpc[p] = "check_expiry"
    /\ LET row == tkrow[p]
       IN  IF StoredRowExpired(row, now)
           THEN /\ CheckResult(p, tkreq[p].token, ErrTokenExpired, "", "",
                               row # NoRow)
                /\ UNCHANGED <<tokens, users>>
           ELSE /\ tokens' = [tokens EXCEPT ![row.access_token] =
                                TokenInfoOf(row)]
                /\ tkres' = [tkres EXCEPT ![p] =
                                CheckAnswer(p, tkreq[p].token, "ok",
                                            row.client_id, row.access_scope,
                                            TRUE)]
                /\ tkpc' = [tkpc EXCEPT ![p] = "check_user"]
                /\ UNCHANGED users
    /\ UNCHANGED <<restvars, gwvars, now, rlvars, tokenTable, uniquePair, nextToken, tkreq,
                   tkrow, tkfallback, tkconc, issued, granted, nreqs>>

\* Mutant: CheckToken's last step also forgets every key's bucket.
CheckTokenSetUser_ForgetsLimiters(p) ==
    /\ tkpc[p] = "check_user"
    /\ users' = SetUserToken(users, tkrow[p].client_id, tkrow[p].access_scope,
                             tkrow[p].access_token)
    /\ tkpc' = [tkpc EXCEPT ![p] = "done"]
    /\ limiters' = [k \in Keys |-> NoBucket]
    /\ UNCHANGED <<restvars, gwvars, now, capacity, fillRate, buckets, globalMux, rlpc,
                   rlkey, rlbucket, rlfirst, log, ncalls, rlloc, tokens,
                   tokenTable, uniquePair, nextToken, tkreq, tkrow, tkfallback,
                   tkres, tkconc, issued, granted, nreqs>>

\* CheckToken: the token becomes the client's cached token of the scope, in
\* a step of its own after the Store into the token cache, and CheckToken
\* returns.
CheckTokenSetUser(p) ==
    /\ tkpc[p] = "check_user"
    /\ users' = SetUserToken(users, tkrow[p].client_id, tkrow[p].access_scope,
                             tkrow[p].access_token)
    /\ tkpc' = [tkpc EXCEPT ![p] = "done"]
    /\ UNCHANGED <<restvars, gwvars, now, rlvars, tokens, tokenTable, uniquePair,
                   nextToken, tkreq, tkrow, tkfallback, tkres, tkconc, issued,
                   granted, nreqs>>

\* The response is written and the task is free for the next request.
RespondBody(p) ==
    /\ tkpc[p] = "done"
    /\ tkpc' = [tkpc EXCEPT ![p] = "idle"]
    /\ tkreq' = [tkreq EXCEPT ![p] = NoReq]
    /\ tkrow' = [tkrow EXCEPT ![p] = NoRow]
    /\ tkres' = [tkres EXCEPT ![p] = NoRes]
    /\ tkfallback' = [tkfallback EXCEPT ![p] = FALSE]
    /\ tkconc' = [q \in Procs |-> IF q = p THEN {} ELSE tkconc[q] \ {p}]
    /\ UNCHANGED <<restvars, now, rlvars, users, tokens, tokenTable, uniquePair,
                   nextToken, issued, granted, nreqs>>

\* The response of a handler that was invoked directly.
Respond(p) == RespondBody(p) /\ UNCHANGED gwvars

\* No request in flight, empty caches, an empty token table.
TkIdle ==
    /\ tokens = [t \in TokenValues |-> NoInfo]
    /\ tokenTable = {}
    /\ nextToken = 0
    /\ tkpc = [p \in Procs |-> "idle"]
    /\ tkreq = [p \in Procs |-> NoReq]
    /\ tkrow = [p \in Procs |-> NoRow]
    /\ tkfallback = [p \in Procs |-> FALSE]
    /\ tkres = [p \in Procs |-> NoRes]
    /\ tkconc = [p \in Procs |-> {}]
    /\ issued = <<>>
    /\ granted = {}
    /\ nreqs = 0

\* The token service at rest with the registry loaded.
TkStart ==
    /\ users = [c \in DOMAIN Registry |-> LoadedUser(Registry[c])]
    /\ TkIdle

\* No IsAllowed call in flight and no bucket yet.
RLStart ==
    /\ buckets = <<>>
    /\ rlpc = [p \in Procs |-> "idle"]
    /\ rlkey = [p \in Procs |-> NoKey]
    /\ rlbucket = [p \in Procs |-> NoBucket]
    /\ rlfirst = [p \in Procs |-> FALSE]
    /\ log = [k \in Keys |-> <<>>]
    /\ ncalls = 0
    /\ rlloc = [p \in Procs |-> NoLoc]

\* The StartTranscoding calls of a behaviour, in the order they are made, and
\* the videos they are made for.
Calls == 1..MaxStarts
Videos == {"v1"}
NoCall == 0

\* pb.TranscodingStatus
UNSPECIFIED == "UNSPECIFIED"
QUEUED == "QUEUED"
PROCESSING == "PROCESSING"
COMPLETED == "COMPLETED"
FAILED == "FAILED"

\* No entry of Service.jobs for a video.
NoJobState == [call |-> NoCall, status |-> UNSPECIFIED, progress |-> 0]

\* NewService: no job state, no StartTranscoding call made yet.
TcIdle ==
    /\ jobs = [v \in Videos |-> NoJobState]
    /\ tcjob = [c \in Calls |-> <<>>]
    /\ tcstored = [c \in Calls |-> <<>>]
    /\ tcret = [c \in Calls |-> "none"]
    /\ tcvideo = [c \in Calls |-> "none"]
    /\ tcpc = [c \in Calls |-> "none"]
    /\ tcidx = [c \in Calls |-> 0]
    /\ tcstate = [c \in Calls |-> NoCall]
    /\ tcfinal = [c \in Calls |-> UNSPECIFIED]
    /\ tcnotes = [c \in Calls |-> <<>>]

\* GetAllUsers has returned: the user table held the registry's clients and
\* they are loaded.
BootDone ==
    /\ bootpc = "serving"
    /\ userTable = DOMAIN Registry
    /\ bootseen = DOMAIN Registry
    /\ bootloads = 1

\* No HTTP request inside the middleware.
GwStart ==
    /\ gwpc = [p \in Procs |-> "idle"]
    /\ gwreq = [p \in Procs |-> NoRequest]

\* The rate limiter under every configuration, the token service at rest.
Init ==
    /\ now = 0
    /\ \E c \in Capacities, r \in FillRates : NewRateLimiter(c, r)
    /\ RLStart
    /\ uniquePair = TRUE
    /\ TkStart
    /\ GwStart
    /\ BootDone
    /\ TcIdle

Next ==
    \/ \E p \in Procs, k \in Keys : IsAllowed(p, k)
    \/ \E p \in Procs : getLimiterLock(p)
    \/ \E p \in Procs : getLimiterCreate(p)
    \/ \E p \in Procs : AllowLock(p)
    \/ \E p \in Procs : Allow(p)
    \/ Tick

Spec == Init /\ [][Next]_vars

\* The rate limiter with Allow taken statement by statement.
StepNext ==
    \/ \E p \in Procs, k \in Keys : IsAllowed(p, k)
    \/ \E p \in Procs : getLimiterLock(p)
    \/ \E p \in Procs : getLimiterCreate(p)
    \/ \E p \in Procs : AllowLock(p)
    \/ \E p \in Procs : AllowRefill(p)
    \/ \E p \in Procs : AllowTest(p)
    \/ \E p \in Procs : AllowTake(p)
    \/ \E p \in Procs : AllowUnlock(p)
    \/ Tick

\* A bucket of one or two tokens that refills by one token unit per tick.
StepInit ==
    /\ now = 0
    /\ \E c \in {Unit, 2 * Unit} : NewRateLimiter(c, 1)
    /\ RLStart
    /\ uniquePair = TRUE
    /\ TkStart
    /\ GwStart
    /\ BootDone
    /\ TcIdle

StepSpec == StepInit /\ [][StepNext]_vars

\* Fair scheduling of the rate limiter's tasks: a task that can take its next
\* statement takes it, and a task waiting in Lock() gets the mutex when it is
\* released again and again (sync.Mutex hands a starving waiter the lock).
StepFairness ==
    \A p \in Procs :
        /\ SF_vars(getLimiterLock(p))
        /\ WF_vars(getLimiterCreate(p))
        /\ SF_vars(AllowLock(p))
        /\ WF_vars(AllowRefill(p))
        /\ WF_vars(AllowTest(p))
        /\ WF_vars(AllowTake(p))
        /\ WF_vars(AllowUnlock(p))

\* Time passes while no IsAllowed call is in flight: the calls in flight
\* together read one clock value.
CalmTick ==
    /\ \A p \in Procs : rlpc[p] = "idle"
    /\ Tick

LiveNext ==
    \/ \E p \in Procs, k \in Keys : IsAllowed(p, k)
    \/ \E p \in Procs : getLimiterLock(p)
    \/ \E p \in Procs : getLimiterCreate(p)
    \/ \E p \in Procs : AllowLock(p)
    \/ \E p \in Procs : AllowRefill(p)
    \/ \E p \in Procs : AllowTest(p)
    \/ \E p \in Procs : AllowTake(p)
    \/ \E p \in Procs : AllowUnlock(p)
    \/ CalmTick

LiveSpec == StepInit /\ [][LiveNext]_vars /\ StepFairness

\* The token service over both kinds of token table, the rate limiter at
\* rest with the default configuration of main (10 tokens, 2 per second).
TokenInit ==
    /\ now = 0
    /\ NewRateLimiter(10 * Unit, 2 * Unit)
    /\ RLStart
    /\ uniquePair \in BOOLEAN
    /\ TkStart
    /\ GwStart
    /\ BootDone
    /\ TcIdle

TokenNext ==
    \/ \E p \in Procs, f \in Forms : TokenHandler(p, f)
    \/ \E p \in Procs : AddTokenCache(p)
    \/ \E p \in Procs : GetTokenQuery(p)
    \/ \E p \in Procs : GetTokenCheck(p)
    \/ \E p \in Procs : AddTokenInsert(p)
    \/ \E p \in Procs, tok \in TokenValues : CheckTokenCache(p, tok)
    \/ \E p \in Procs : CheckTokenQuery(p)
    \/ \E p \in Procs : CheckTokenExpiry(p)
    \/ \E p \in Procs : CheckTokenSetUser(p)
    \/ \E p \in Procs : Respond(p)
    \/ Tick

TokenSpec == TokenInit /\ [][TokenNext]_vars

\* ------------------------------------------------------------------------
\* Store calls that end with an error other than pgx.ErrNoRows
\* ------------------------------------------------------------------------

\* get_token's Scan returns such an error: log.Fatal ends the process, and
\* with it every request in flight.
GetTokenFault(p) ==
    /\ tkpc[p] = "get_token"
    /\ tkpc' = [q \in Procs |-> "exited"]
    /\ tkreq' = [tkreq EXCEPT ![p].fault = TRUE]
    /\ tkres' = [tkres EXCEPT ![p] =
                    [op |-> "issue", status |-> "log.Fatal", token |-> NoToken,
                     client |-> tkreq[p].ClientId, scope |-> tkreq[p].Scope,
                     at |-> now, found |-> FALSE, cached |-> FALSE]]
    /\ UNCHANGED <<restvars, gwvars, now, rlvars, users, tokens, tokenTable, uniquePair,
                   nextToken, tkrow, tkfallback, tkconc, issued, granted, nreqs>>

\* get_token's DELETE of an expired row fails: the error of Exec is dropped,
\* the row stays and "" is returned.
GetTokenDeleteFault(p) ==
    /\ tkpc[p] = "get_check"
    /\ RowExpired(tkrow[p], now)
    /\ tkreq' = [tkreq EXCEPT ![p].fault = TRUE]
    /\ IF tkfallback[p]
       THEN IssueError(p, tkreq[p], "Internal server error")
       ELSE tkpc' = [tkpc EXCEPT ![p] = "insert"] /\ UNCHANGED tkres
    /\ UNCHANGED <<restvars, gwvars, now, rlvars, users, tokens, tokenTable, uniquePair,
                   nextToken, tkrow, tkfallback, tkconc, issued, granted, nreqs>>

\* AddToken's INSERT fails: get_token is asked again.
InsertFault(p) ==
    /\ tkpc[p] = "insert"
    /\ tkpc' = [tkpc EXCEPT ![p] = "get_token"]
    /\ tkfallback' = [tkfallback EXCEPT ![p] = TRUE]
    /\ tkreq' = [tkreq EXCEPT ![p].fault = TRUE]
    /\ UNCHANGED <<restvars, gwvars, now, rlvars, users, tokens, tokenTable, uniquePair,
                   nextToken, tkrow, tkres, tkconc, issued, granted, nreqs>>

\* CheckToken's Scan fails: err is compared with pgx.ErrNoRows only, so the
\* function goes on to the expiry test with id, scope and exp_time at their
\* zero values.
CheckTokenFault(p) ==
    /\ tkpc[p] = "check_query"
    /\ tkrow' = [tkrow EXCEPT ![p] = NoRow]
    /\ tkpc' = [tkpc EXCEPT ![p] = "check_expiry"]
    /\ tkreq' = [tkreq EXCEPT ![p].fault = TRUE]
    /\ UNCHANGED <<restvars, gwvars, now, rlvars, users, tokens, tokenTable, uniquePair,
                   nextToken, tkfallback, tkres, tkconc, issued, granted, nreqs>>

FaultNext ==
    \/ TokenNext
    \/ \E p \in Procs : GetTokenFault(p)
    \/ \E p \in Procs : GetTokenDeleteFault(p)
    \/ \E p \in Procs : InsertFault(p)
    \/ \E p \in Procs : CheckTokenFault(p)

\* The token service with a Store whose calls may fail.
FaultSpec == TokenInit /\ [][FaultNext]_vars

\* ------------------------------------------------------------------------
\* The rate limiting middleware in front of the handlers
\* ------------------------------------------------------------------------

\* The forms of the token/ requests sent through the middleware: client c1
\* with its secret and with a wrong one.
GwForms == {f \in Forms : f.ClientId = "c1" /\ f.GrantType = "client_credentials"}

\* The requests a peer sends.
Requests ==
    {[NoRequest EXCEPT !.path = "/token/", !.form = f] : f \in GwForms}
    \cup {[NoRequest EXCEPT !.path = "/check/", !.token = tok] : tok \in TokenValues}

\* The clientID the middleware limits a request by: the client_id field of
\* a token/ form, the client of a check/ token the tokens map knows (expired
\* or not), and the peer's IP address when that gave nothing.
ClientKey(r) ==
    LET id == IF r.path = "/token/" THEN r.form.ClientId
              ELSE IF tokens[r.token] # NoInfo THEN tokens[r.token].ClientID
              ELSE NoKey
    IN  IF id = NoKey THEN ClientIP ELSE id

\* Mutant: the middleware lets every request through.
Admits_Always(ok) == TRUE

\* if !rateLimiter.IsAllowed(clientID) { ... c.Abort(); return }
Admits(ok) == ok

\* The value the Allow call of this step returns for key k.
Returned(k) == log'[k][Len(log'[k])].ok

\* The middleware takes a request, works out the clientID and calls
\* IsAllowed.
rateLimitMiddleware(p, r) ==
    /\ gwpc[p] = "idle"
    /\ IsAllowedBody(p, ClientKey(r))
    /\ gwpc' = [gwpc EXCEPT ![p] = "limiter"]
    /\ gwreq' = [gwreq EXCEPT ![p] = [r EXCEPT !.key = ClientKey(r)]]

\* IsAllowed returns to the middleware: a refused request is to be answered
\* 429, an admitted one goes on to its handler (c.Next()).
MiddlewareAllow(p) ==
    /\ gwpc[p] = "limiter"
    /\ AllowBody(p)
    /\ gwpc' = [gwpc EXCEPT ![p] =
                   IF Admits(Returned(rlkey[p])) THEN "next" ELSE "rejected"]
    /\ gwreq' = [gwreq EXCEPT ![p].allowed = Returned(rlkey[p])]

\* The 429 answer with its headers, c.Abort() and return.
MiddlewareReject(p) ==
    /\ gwpc[p] = "rejected"
    /\ gwpc' = [gwpc EXCEPT ![p] = "idle"]
    /\ gwreq' = [gwreq EXCEPT ![p] = NoRequest]
    /\ UNCHANGED <<restvars, now, rlvars, tkvars>>

\* c.Next() for a token/ request.
NextTokenHandler(p) ==
    /\ gwpc[p] = "next"
    /\ gwreq[p].path = "/token/"
    /\ TokenHandlerBody(p, gwreq[p].form)
    /\ gwpc' = [gwpc EXCEPT ![p] = "handler"]
    /\ UNCHANGED gwreq

\* c.Next() for a check/ request.
NextCheckHandler(p) ==
    /\ gwpc[p] = "next"
    /\ gwreq[p].path = "/check/"
    /\ CheckTokenCacheBody(p, gwreq[p].token)
    /\ gwpc' = [gwpc EXCEPT ![p] = "handler"]
    /\ UNCHANGED gwreq

\* The handler's response leaves through the middleware.
MiddlewareRespond(p) ==
    /\ gwpc[p] = "handler"
    /\ RespondBody(p)
    /\ gwpc' = [gwpc EXCEPT ![p] = "idle"]
    /\ gwreq' = [gwreq EXCEPT ![p] = NoRequest]

\* Time passes between requests: the requests in flight together are served
\* within one clock reading.
QuietTick ==
    /\ \A p \in Procs : gwpc[p] = "idle"
    /\ Tick

\* The whole service behind r.Use(rateLimitMiddleware), with a bucket of one
\* token that refills by one token unit per tick.
GatewayInit ==
    /\ now = 0
    /\ NewRateLimiter(Unit, 1)
    /\ RLStart
    /\ uniquePair = TRUE
    /\ TkStart
    /\ GwStart
    /\ BootDone
    /\ TcIdle

GatewayNext ==
    \/ \E p \in Procs, r \in Requests : rateLimitMiddleware(p, r)
    \/ \E p \in Procs : getLimiterLock(p)
    \/ \E p \in Procs : getLimiterCreate(p)
    \/ \E p \in Procs : AllowLock(p)
    \/ \E p \in Procs : MiddlewareAllow(p)
    \/ \E p \in Procs : MiddlewareReject(p)
    \/ \E p \in Procs : NextTokenHandler(p)
    \/ \E p \in Procs : NextCheckHandler(p)
    \/ \E p \in Procs : AddTokenCache(p)
    \/ \E p \in Procs : GetTokenQuery(p)
    \/ \E p \in Procs : GetTokenCheck(p)
    \/ \E p \in Procs : AddTokenInsert(p)
    \/ \E p \in Procs : CheckTokenQuery(p)
    \/ \E p \in Procs : CheckTokenExpiry(p)
    \/ \E p \in Procs : CheckTokenSetUser(p)
    \/ \E p \in Procs : MiddlewareRespond(p)
    \/ QuietTick

GatewaySpec == GatewayInit /\ [][GatewayNext]_vars

\* ---------------------------------------------------------------------
\* The bootstrap: GetAllUsers, run by main before the server starts.

\* The size of a complete page of clients: len(usrs) == 1000, scaled to the
\* size of Registry.
PageSize == 2

\* The client ids a row of the user table can carry.
UserIds == DOMAIN Registry \cup {"c3"}

\* The row of the user table with client id c.
UserRow(c) ==
    IF c \in DOMAIN Registry
    THEN Registry[c]
    ELSE [ClientSecret |-> "s3", Scopes |-> <<"read">>]

\* Mutant: a load with more rows than a page is also taken as complete.
CompletePage_AtLeast(rows) == Cardinality(rows) >= PageSize

\* len(usrs) == 1000
CompletePage(rows) == Cardinality(rows) = PageSize

\* Everything but the bootstrap and the registry stays as it is.
BootFrame ==
    UNCHANGED <<now, rlvars, gwvars, tokens, tokenTable, uniquePair, nextToken,
                tkpc, tkreq, tkrow, tkfallback, tkres, tkconc, issued, granted,
                nreqs, tcvars>>

\* select * from public.user, and the loop over rows.Next() into usrs.
BootQuery ==
    /\ bootpc = "query"
    /\ bootloads < MaxLoads
    /\ bootloads' = bootloads + 1
    /\ bootseen' = userTable
    /\ bootpc' = "loaded"
    /\ UNCHANGED <<users, userTable>>
    /\ BootFrame

\* A complete page: every row is stored into users and GetAllUsers returns.
BootStore ==
    /\ bootpc = "loaded"
    /\ CompletePage(bootseen)
    /\ users' = [c \in bootseen |-> LoadedUser(UserRow(c))]
    /\ bootpc' = "serving"
    /\ UNCHANGED <<userTable, bootseen, bootloads>>
    /\ BootFrame

\* Any other number of rows: time.Sleep(time.Second) and the next round.
BootSleep ==
    /\ bootpc = "loaded"
    /\ ~CompletePage(bootseen)
    /\ bootpc' = "query"
    /\ UNCHANGED <<users, userTable, bootseen, bootloads>>
    /\ BootFrame

\* Another writer of the store adds or removes a client row.
UserTableChange(c) ==
    /\ bootpc # "serving"
    /\ userTable' = IF c \in userTable THEN userTable \ {c}
                                       ELSE userTable \cup {c}
    /\ UNCHANGED <<users, bootpc, bootseen, bootloads>>
    /\ BootFrame

\* main has connected to the store; the user table holds any set of clients.
BootInit ==
    /\ now = 0
    /\ NewRateLimiter(10 * Unit, 2 * Unit)
    /\ RLStart
    /\ uniquePair = TRUE
    /\ users = <<>>
    /\ TkIdle
    /\ GwStart
    /\ bootpc = "query"
    /\ userTable \in SUBSET UserIds
    /\ bootseen = {}
    /\ bootloads = 0
    /\ TcIdle

BootNext ==
    \/ BootQuery
    \/ BootStore
    \/ BootSleep
    \/ \E c \in UserIds : UserTableChange(c)

BootSpec == BootInit /\ [][BootNext]_vars

\* ------------------------------------------------------------------------
\* The transcoding service with in-memory job state

\* jobState.jobs holds pointers to the job objects of the call that stored
\* the jobState: their statuses, in creation order.
JobsOf(st) == IF st.call = NoCall THEN <<>> ELSE tcjob[st.call]

HasStatus(js, s) == \E i \in 1..Len(js) : js[i] = s

\* calculateOverallStatus: the three flags of the loop, then the decision.
calculateOverallStatus(js) ==
    IF Len(js) = 0 THEN UNSPECIFIED
    ELSE IF HasStatus(js, PROCESSING) \/ HasStatus(js, QUEUED) THEN PROCESSING
    ELSE IF HasStatus(js, FAILED)
         THEN (IF HasStatus(js, COMPLETED) THEN COMPLETED ELSE FAILED)
    ELSE COMPLETED

\* job.Progress: processJob leaves 100 on a COMPLETED job and 0 on any other.
JobProgress(s) == IF s = COMPLETED THEN 100 ELSE 0

RECURSIVE TotalProgress(_)
TotalProgress(js) ==
    IF js = <<>> THEN 0 ELSE JobProgress(Head(js)) + TotalProgress(Tail(js))

\* calculateOverallProgress, in whole percent.
calculateOverallProgress(js) ==
    IF Len(js) = 0 THEN 0 ELSE TotalProgress(js) \div Len(js)

\* updateJobStatus: under jobsLock, the status and progress of the video's
\* jobState if there is one (NotifyTranscodingProgress keeps no state here).
updateJobStatus(v, status, progress) ==
    jobs' = IF jobs[v] = NoJobState THEN jobs
            ELSE [jobs EXCEPT ![v].status = status, ![v].progress = progress]

\* storage.UpdateTranscodingJob of job i of call c with status s: an error is
\* only printed, the storage then keeps what it had.
UpdateTranscodingJob(c, i, s, ok) ==
    tcstored' = IF ok THEN [tcstored EXCEPT ![c][i] = s] ELSE tcstored

\* Everything but the transcoding service stays as it is.
TcFrame == UNCHANGED <<now, rlvars, tkvars, gwvars, bootvars>>

\* The next StartTranscoding call of the behaviour.
NextCall(c) == tcret[c] = "none" /\ \A d \in Calls : d < c => tcret[d] # "none"

\* StartTranscoding(videoID) with n target resolutions: GetMediaInfo fails,
\* or SaveTranscodingJob fails after `saved` jobs, or every job is saved, the
\* jobState of the video is replaced and the goroutine is started.
StartTranscoding(c, v, n, mediaOk, saved) ==
    /\ NextCall(c)
    /\ tcvideo' = [tcvideo EXCEPT ![c] = v]
    /\ IF ~mediaOk
       THEN /\ tcret' = [tcret EXCEPT ![c] = "error"]
            /\ UNCHANGED <<jobs, tcjob, tcstored, tcpc, tcidx>>
       ELSE IF saved < n
       THEN /\ tcret' = [tcret EXCEPT ![c] = "error"]
            /\ tcstored' = [tcstored EXCEPT ![c] = [i \in 1..saved |-> QUEUED]]
            /\ UNCHANGED <<jobs, tcjob, tcpc, tcidx>>
       ELSE /\ tcret' = [tcret EXCEPT ![c] = "ok"]
            /\ tcstored' = [tcstored EXCEPT ![c] = [i \in 1..n |-> QUEUED]]
            /\ tcjob' = [tcjob EXCEPT ![c] = [i \in 1..n |-> QUEUED]]
            /\ jobs' = [jobs EXCEPT ![v] = [call |-> c, status |-> QUEUED,
                                            progress |-> 0]]
            /\ tcpc' = [tcpc EXCEPT ![c] = "start"]
            /\ tcidx' = [tcidx EXCEPT ![c] = 1]
    /\ UNCHANGED <<tcstate, tcfinal, tcnotes>>
    /\ TcFrame

\* processTranscodingJobs: updateJobStatus(PROCESSING, 0), then the loop.
ProcessStart(c) ==
    /\ tcpc[c] = "start"
    /\ updateJobStatus(tcvideo[c], PROCESSING, 0)
    /\ tcpc' = [tcpc EXCEPT ![c] = "job"]
    /\ UNCHANGED <<tcjob, tcstored, tcret, tcvideo, tcidx, tcstate, tcfinal,
                   tcnotes>>
    /\ TcFrame

\* The loop that leaves before its last job.
LoopDone_OneEarly(c) == tcidx[c] >= Len(tcjob[c])

\* for _, job := range jobs has run out of jobs.
LoopDone(c) == tcidx[c] > Len(tcjob[c])

\* processJob, up to the TranscodeVideo call: the job is PROCESSING.
ProcessJobBegin(c, ok) ==
    /\ tcpc[c] = "job"
    /\ ~LoopDone(c)
    /\ tcjob' = [tcjob EXCEPT ![c][tcidx[c]] = PROCESSING]
    /\ UpdateTranscodingJob(c, tcidx[c], PROCESSING, ok)
    /\ tcpc' = [tcpc EXCEPT ![c] = "transcode"]
    /\ UNCHANGED <<jobs, tcret, tcvideo, tcidx, tcstate, tcfinal, tcnotes>>
    /\ TcFrame

\* TranscodeVideo returns, with an error or without: the job is FAILED or
\* COMPLETED, in the object and (unless the update fails) in the storage.
TranscodeReturns(c, err, ok) ==
    /\ tcpc[c] = "transcode"
    /\ LET s == IF err THEN FAILED ELSE COMPLETED
       IN  /\ tcjob' = [tcjob EXCEPT ![c][tcidx[c]] = s]
           /\ UpdateTranscodingJob(c, tcidx[c], s, ok)
    /\ tcpc' = [tcpc EXCEPT ![c] = "update"]
    /\ UNCHANGED <<jobs, tcret, tcvideo, tcidx, tcstate, tcfinal, tcnotes>>
    /\ TcFrame

\* processJob's "Update in-memory state": under jobsLock the video's jobState
\* gets the status and progress computed from its own job list.
ProcessJobUpdate(c) ==
    /\ tcpc[c] = "update"
    /\ LET st == jobs[tcvideo[c]]
       IN  updateJobStatus(tcvideo[c], calculateOverallStatus(JobsOf(st)),
                           calculateOverallProgress(JobsOf(st)))
    /\ tcidx' = [tcidx EXCEPT ![c] = tcidx[c] + 1]
    /\ tcpc' = [tcpc EXCEPT ![c] = "job"]
    /\ UNCHANGED <<tcjob, tcstored, tcret, tcvideo, tcstate, tcfinal, tcnotes>>
    /\ TcFrame

\* "Check final status": jobState, exists := s.jobs[videoID] under RLock.
ProcessFinalRead(c) ==
    /\ tcpc[c] = "job"
    /\ LoopDone(c)
    /\ tcstate' = [tcstate EXCEPT ![c] = jobs[tcvideo[c]].call]
    /\ tcpc' = [tcpc EXCEPT ![c] = IF jobs[tcvideo[c]] = NoJobState
                                   THEN "done" ELSE "final"]
    /\ UNCHANGED <<jobs, tcjob, tcstored, tcret, tcvideo, tcidx, tcfinal,
                   tcnotes>>
    /\ TcFrame

\* finalStatus := s.calculateOverallStatus(jobState.jobs), outside the lock.
ProcessFinalStatus(c) ==
    /\ tcpc[c] = "final"
    /\ tcfinal' = [tcfinal EXCEPT ![c] = calculateOverallStatus(tcjob[tcstate[c]])]
    /\ tcpc' = [tcpc EXCEPT ![c] = "finish"]
    /\ UNCHANGED <<jobs, tcjob, tcstored, tcret, tcvideo, tcidx, tcstate,
                   tcnotes>>
    /\ TcFrame

\* updateJobStatus(videoID, finalStatus, 100) and NotifyTranscodingComplete.
ProcessFinish(c) ==
    /\ tcpc[c] = "finish"
    /\ updateJobStatus(tcvideo[c], tcfinal[c], 100)
    /\ tcnotes' = [tcnotes EXCEPT ![c] = Append(tcnotes[c], tcfinal[c])]
    /\ tcpc' = [tcpc EXCEPT ![c] = "done"]
    /\ UNCHANGED <<tcjob, tcstored, tcret, tcvideo, tcidx, tcstate, tcfinal>>
    /\ TcFrame

\* One step of the goroutine of call c.
ProcessStep(c) ==
    \/ ProcessStart(c)
    \/ \E ok \in BOOLEAN : ProcessJobBegin(c, ok)
    \/ \E err \in BOOLEAN, ok \in BOOLEAN : TranscodeReturns(c, err, ok)
    \/ ProcessJobUpdate(c)
    \/ ProcessFinalRead(c)
    \/ ProcessFinalStatus(c)
    \/ ProcessFinish(c)

\* A new Service; the rest of the repository's programs at rest.
TranscodeInit ==
    /\ now = 0
    /\ NewRateLimiter(10 * Unit, 2 * Unit)
    /\ RLStart
    /\ uniquePair = TRUE
    /\ TkStart
    /\ GwStart
    /\ BootDone
    /\ TcIdle

TranscodeNext ==
    \/ \E c \in Calls, v \in Videos, n \in 1..MaxJobs, mediaOk \in BOOLEAN :
          \E saved \in 0..n : StartTranscoding(c, v, n, mediaOk, saved)
    \/ \E c \in Calls : ProcessStep(c)

TranscodeSpec == TranscodeInit /\ [][TranscodeNext]_vars

\* The Go scheduler runs every goroutine that can take a step, and every
\* TranscodeVideo call returns.
TranscodeFairness == \A c \in Calls : WF_vars(ProcessStep(c))

TranscodeLiveSpec == TranscodeSpec /\ TranscodeFairness

\* ------------------------------------------------------------------------
\* Properties of the rate limiter
\* ------------------------------------------------------------------------

\* The buckets ever allocated for key k.
KeyBuckets(k) == {b \in DOMAIN buckets : buckets[b].key = k}

\* Number of admitted calls among the first n of key k.
Admitted(k, n) == Cardinality({i \in 1..n : log[k][i].ok})

\* floor of the configured capacity, in whole tokens.
FloorCapacity == capacity \div Unit

\* C1: after every Allow call of every key the bucket holds
\* 0 <= tokens <= capacity, whatever capacity and fill rate were configured.
C1_TokensWithinCapacity ==
    \A k \in Keys : \A i \in 1..Len(log[k]) :
        /\ 0 <= log[k][i].post
        /\ log[k][i].post <= capacity

\* C1, for the configurations with capacity >= 0 (the part that holds).
C1_HoldsForNonNegativeCapacity ==
    capacity >= 0 => C1_TokensWithinCapacity

\* C2: a key never has more than one bucket, every call for a key works on
\* the bucket the map holds for it, and a mapping, once made, is never
\* replaced (the map holds the key's only bucket from its creation on).
C2_OneBucketPerKey ==
    /\ \A k \in Keys :
          /\ Cardinality(KeyBuckets(k)) <= 1
          /\ limiters[k] = NoBucket <=> KeyBuckets(k) = {}
          /\ limiters[k] # NoBucket => limiters[k] \in KeyBuckets(k)
    /\ \A p \in Procs :
          rlbucket[p] # NoBucket => rlbucket[p] = limiters[rlkey[p]]

\* C2 witness: two first-time callers of one key both hold its one bucket.
C2_Witness ==
    \E p, q \in Procs :
        /\ p # q
        /\ rlfirst[p] /\ rlfirst[q]
        /\ rlkey[p] = rlkey[q]
        /\ rlbucket[p] # NoBucket
        /\ rlbucket[q] = rlbucket[p]

\* All calls of key k so far were first-time calls made at one instant.
FirstTimeBurst(k) ==
    /\ Len(log[k]) > 0
    /\ \A i \in 1..Len(log[k]) :
          log[k][i].first /\ log[k][i].t = log[k][1].t

\* C3: of N concurrent first-time calls for one unseen key, made with no
\* time elapsing, exactly min(N, floor(capacity)) are admitted (so at most
\* capacity).
C3_BurstAdmitsCapacity ==
    \A k \in Keys :
        FirstTimeBurst(k) =>
            /\ Admitted(k, Len(log[k])) = Min(Len(log[k]), FloorCapacity)
            /\ Admitted(k, Len(log[k])) * Unit <= capacity

\* C3, for the configurations with capacity >= 0 (the part that holds).
C3_HoldsForNonNegativeCapacity ==
    capacity >= 0 => C3_BurstAdmitsCapacity

\* The calls of key k made at the instant of its first call.
FirstBurst(k) == {i \in 1..Len(log[k]) : log[k][i].t = log[k][1].t}

\* C4: with an integer capacity C >= 1 and a fill rate r > 0, a fresh key
\* admits exactly its first C back-to-back calls and denies the next ones;
\* when after a denial it stays idle for w ticks, exactly
\* min(C, floor(w * r)) of the following back-to-back calls are admitted.
C4_BurstThenRefill ==
    (capacity >= Unit /\ capacity % Unit = 0 /\ fillRate > 0) =>
        \A k \in Keys :
            LET L == log[k]
                j == Cardinality(FirstBurst(k))
            IN  /\ \A i \in 1..Len(L) :
                      i \in FirstBurst(k) => (L[i].ok <=> i <= FloorCapacity)
                /\ (j > FloorCapacity /\ Len(L) > j) =>
                      LET w == L[j + 1].t - L[1].t
                          more == Min(FloorCapacity, (w * fillRate) \div Unit)
                      IN  \A i \in (j + 1)..Len(L) :
                              L[i].t = L[j + 1].t =>
                                  (L[i].ok <=> i - j <= more)

\* C4 witness: capacity 1 and one token per tick: the first call admitted,
\* the second denied, and one tick later one call admitted and the next
\* denied.
C4_Witness ==
    /\ capacity = Unit
    /\ fillRate = Unit
    /\ \E k \in Keys :
          /\ Len(log[k]) = 4
          /\ <<log[k][1].ok, log[k][2].ok, log[k][3].ok, log[k][4].ok>>
                = <<TRUE, FALSE, TRUE, FALSE>>
          /\ log[k][2].t = log[k][1].t
          /\ log[k][3].t = log[k][1].t + 1
          /\ log[k][4].t = log[k][3].t

\* C5 as stated: an Allow that follows t ticks after a call that left the
\* bucket empty sees min(capacity, t * fill_rate) tokens at its admission
\* test and leaves last_refill at the current time.
C5_RefillFromEmpty ==
    \A k \in Keys : \A i \in 2..Len(log[k]) :
        LET prev == log[k][i - 1]
            cur == log[k][i]
        IN  prev.post = 0 =>
                /\ cur.pre = Min(capacity, (cur.t - prev.t) * fillRate)
                /\ cur.lr = cur.t

\* C5 as amended: the Allow sees min(capacity, max(0, t * fill_rate)), and
\* last_refill becomes the current time exactly when t * fill_rate > 0
\* (otherwise it keeps its value).
C5_RefillFromEmptyAmended ==
    \A k \in Keys : \A i \in 2..Len(log[k]) :
        LET prev == log[k][i - 1]
            cur == log[k][i]
            add == (cur.t - prev.t) * fillRate
        IN  prev.post = 0 =>
                /\ cur.pre = Min(capacity, Max(0, add))
                /\ cur.lr = IF add > 0 THEN cur.t ELSE prev.lr

\* C5 witness: a call finds the bucket partly refilled after it was empty.
C5_Witness ==
    \E k \in Keys : \E i \in 2..Len(log[k]) :
        /\ log[k][i - 1].post = 0
        /\ log[k][i].t > log[k][i - 1].t
        /\ log[k][i].pre > 0
        /\ log[k][i].pre < capacity

\* C6: the first call for a key without a bucket is admitted, for every
\* capacity the limiter can be configured with.
C6_FirstCallAdmitted ==
    \A k \in Keys : Len(log[k]) > 0 => log[k][1].ok

\* C6, for the configurations with a capacity of at least one token.
C6_HoldsFromOneToken ==
    capacity >= Unit => C6_FirstCallAdmitted

\* ------------------------------------------------------------------------
\* Properties of the token service
\* ------------------------------------------------------------------------

IssueDone(p) ==
    tkpc[p] = "done" /\ tkres[p].op = "issue" /\ tkres[p].status = "ok"

CheckDone(p) == tkpc[p] = "done" /\ tkres[p].op = "check"

\* C7: two Issue calls for one (client_id, scope) that overlap in time and
\* both succeed return the same token value.
C7_ConcurrentIssueSameToken ==
    \A p, q \in Procs :
        (/\ p # q
         /\ IssueDone(p) /\ IssueDone(q)
         /\ q \in tkconc[p]
         /\ tkres[p].client = tkres[q].client
         /\ tkres[p].scope = tkres[q].scope)
        => tkres[p].token = tkres[q].token

\* C7 where the token table enforces one row per (client_id, scope).
C7_UnderUniqueRows == uniquePair => C7_ConcurrentIssueSameToken

\* C8: a Validate of a token that a successful Issue(client, scope) had
\* returned, decided before the token's expires_at, succeeds and returns
\* that client and scope.
C8_IssuedTokenValidates ==
    \A p \in Procs :
        CheckDone(p) =>
            \A g \in tkreq[p].prior :
                tkres[p].at < issued[g[1]].expiration_time =>
                    /\ tkres[p].status = "ok"
                    /\ tkres[p].client = g[2]
                    /\ tkres[p].scope = g[3]

\* C8 witness: an issued token was validated before its expiry, once from
\* the store and once from the token cache.
C8_Witness ==
    \E p, q \in Procs :
        /\ p # q
        /\ CheckDone(p) /\ CheckDone(q)
        /\ tkreq[p].prior # {} /\ tkreq[q].prior # {}
        /\ tkres[p].status = "ok" /\ tkres[q].status = "ok"
        /\ tkres[p].found /\ ~tkres[q].found

\* The token of a finished Validate had expired when it was decided.
ValidatedAfterExpiry(p) ==
    /\ CheckDone(p)
    /\ tkres[p].token <= Len(issued)
    /\ tkres[p].at > issued[tkres[p].token].expiration_time

\* C9 as stated: every Validate of a token whose expires_at has passed fails
\* with "token expired".
C9_ExpiredTokenFailsExpired ==
    \A p \in Procs :
        ValidatedAfterExpiry(p) => tkres[p].status = "token expired"

\* C9 as amended: every such Validate fails: with "token expired" while the
\* store still holds the row, with "nonexistent token" once the row has
\* been deleted.
C9_ExpiredTokenFails ==
    \A p \in Procs :
        ValidatedAfterExpiry(p) =>
            tkres[p].status =
                IF tkres[p].found THEN "token expired" ELSE "nonexistent token"

\* C9 witness: an expired token, its row still stored, is refused as expired.
C9_Witness ==
    \E p \in Procs :
        ValidatedAfterExpiry(p) /\ tkres[p].status = "token expired"

\* C10: a token/ request for an existing client with a secret that does not
\* match is answered "Incorrect client credentials" and changes neither the
\* token table nor the token cache nor the clients' cached tokens.
C10_BadSecretRejected ==
    [][\A p \in Procs :
        (/\ tkpc[p] = "idle"
         /\ tkreq'[p].op = "issue"
         /\ tkreq'[p].GrantType = "client_credentials"
         /\ tkreq'[p].ClientId \in DOMAIN users
         /\ tkreq'[p].ClientSecret # users[tkreq'[p].ClientId].ClientSecret)
        => /\ tkpc'[p] = "done"
           /\ tkres'[p].status = "Incorrect client credentials"
           /\ tkres'[p].token = NoToken
           /\ UNCHANGED <<tokenTable, nextToken, issued, tokens, users>>]_vars

\* C10 witness: a request with a wrong secret was refused while the token
\* table held a row.
C10_Witness ==
    \E p \in Procs :
        /\ tkpc[p] = "done"
        /\ tkres[p].status = "Incorrect client credentials"
        /\ tokenTable # {}

\* The scopes the registry permits to client c.
PermittedScopes(c) == {Registry[c].Scopes[i] : i \in 1..Len(Registry[c].Scopes)}

\* The token/ request that task p begins in this step: a client_credentials
\* request of a registered client.
BeginsIssue(p) ==
    /\ tkpc[p] = "idle"
    /\ tkreq'[p].op = "issue"
    /\ tkreq'[p].GrantType = "client_credentials"
    /\ tkreq'[p].ClientId \in DOMAIN Registry

\* C11: a token/ request of a registered client for a scope that is not among
\* the client's permitted scopes is answered "Wrong scope" when the secret
\* matches and "Incorrect client credentials" when it does not (the secret
\* is checked first); in both cases the answer is given in the handler's
\* first step, before any Store call, and the token table, the token cache
\* and the clients' cached tokens stay as they were.
C11_BadScopeRejected ==
    [][\A p \in Procs :
        (/\ BeginsIssue(p)
         /\ tkreq'[p].Scope \notin PermittedScopes(tkreq'[p].ClientId))
        => /\ tkpc'[p] = "done"
           /\ tkres'[p].status =
                 IF tkreq'[p].ClientSecret = Registry[tkreq'[p].ClientId].ClientSecret
                 THEN "Wrong scope"
                 ELSE "Incorrect client credentials"
           /\ tkres'[p].token = NoToken
           /\ UNCHANGED <<tokenTable, nextToken, issued, tokens, users>>]_vars

\* C11 witness: with a row in the token table, one request was refused for
\* its scope and one, with a wrong secret and the same unpermitted scope,
\* for its secret.
C11_Witness ==
    \E p, q \in Procs :
        /\ tkpc[p] = "done" /\ tkpc[q] = "done"
        /\ tkres[p].status = "Wrong scope"
        /\ tkres[q].status = "Incorrect client credentials"
        /\ tkreq[q].Scope \notin PermittedScopes(tkreq[q].ClientId)
        /\ tokenTable # {}

\* C12: a client_credentials token/ request whose client_id is not in the
\* registry ends with the 400 answer "Incorrect client credentials" (the
\* handler reaches its error response) and no token.
C12_UnknownClientRejected ==
    \A p \in Procs :
        (/\ tkpc[p] = "done"
         /\ tkres[p].op = "issue"
         /\ tkreq[p].GrantType = "client_credentials"
         /\ tkreq[p].ClientId \notin DOMAIN Registry)
        => /\ tkres[p].status = "Incorrect client credentials"
           /\ tkres[p].token = NoToken

\* C13: a token that Issue takes from the client's cached tokens
\* (user.Tokens) has not expired when Issue returns it.
C13_CachedIssueNotExpired ==
    \A p \in Procs :
        (IssueDone(p) /\ tkres[p].cached) =>
            ~Before(issued[tkres[p].token].expiration_time, tkres[p].at)

\* C14: a Validate never succeeds for a token whose expiration time is
\* strictly before the clock reading of the decision; an answer from the
\* token cache is given only while the expiration time is after that
\* reading, and an answer after an expired or missing cache entry comes
\* from the row the store returned.
C14_NoSuccessAfterExpiry ==
    \A p \in Procs :
        (CheckDone(p) /\ tkres[p].status = "ok") =>
            /\ tkres[p].token <= Len(issued)
            /\ ~Before(issued[tkres[p].token].expiration_time, tkres[p].at)
            /\ tkres[p].cached =>
                  After(issued[tkres[p].token].expiration_time, tkres[p].at)
            /\ ~tkres[p].cached => tkres[p].found

\* C14 witness: a Validate found an expired entry in the token cache,
\* deleted it, read the row from the store and failed.
C14_Witness ==
    \E p \in Procs :
        /\ ValidatedAfterExpiry(p)
        /\ tkres[p].found
        /\ tkres[p].status = "token expired"
        /\ tokens[tkres[p].token] = NoInfo
        /\ \E c \in DOMAIN users : \E i \in 1..Len(users[c].Tokens) :
              users[c].Tokens[i] = tkres[p].token

\* C15: when an Issue has returned a token the token cache holds it, and a
\* Validate of it that starts after the Issue returned and is decided
\* before the expiry is answered from the cache, without a Store call.
C15_IssueFillsCache ==
    /\ \A p \in Procs :
          (IssueDone(p) /\ tkres[p].at = now /\ ~tkres[p].cached) =>
              tokens[tkres[p].token] # NoInfo
    /\ \A p \in Procs :
          (/\ CheckDone(p)
           /\ tkreq[p].prior # {}
           /\ Before(tkres[p].at, issued[tkres[p].token].expiration_time))
          => tkres[p].status = "ok" /\ tkres[p].cached

\* The state of the token service: the Store, both caches and the handlers'
\* positions.
TokenState ==
    <<tokenTable, nextToken, issued, tokens, users, tkpc, tkreq, tkrow, tkres>>

\* C16: a handler is entered only by a request whose IsAllowed call
\* returned true; in the step in which IsAllowed returns false the request
\* becomes a rejected one, and while it is rejected, up to its 429 answer,
\* its task enters no handler and its steps leave the Store, the token cache
\* and the clients' cached tokens as they were.
C16_DeniedNeverReachesService ==
    [][\A p \in Procs :
        /\ (tkpc[p] = "idle" /\ tkpc'[p] # "idle") =>
              (gwpc[p] = "next" /\ gwreq[p].allowed)
        /\ (gwpc[p] = "limiter" /\ rlpc[p] = "locked" /\ rlpc'[p] = "idle"
                /\ ~Returned(rlkey[p])) =>
              (gwpc'[p] = "rejected" /\ UNCHANGED TokenState)
        /\ (gwpc[p] = "rejected" /\ gwpc'[p] # "rejected") =>
              (gwpc'[p] = "idle" /\ UNCHANGED TokenState)
        /\ gwpc[p] = "rejected" => tkpc[p] = "idle"]_vars

\* C16 witness: a check/ request and a token/ request were both refused by
\* the limiter while the token table held a row.
C16_Witness ==
    \E p, q \in Procs :
        /\ gwpc[p] = "rejected" /\ gwreq[p].path = "/token/"
        /\ gwpc[q] = "rejected" /\ gwreq[q].path = "/check/"
        /\ tokenTable # {}

\* C17: a token/ request during which a Store call failed does not end the
\* process, and is answered "Internal server error".
C17_StoreFailureSurvived ==
    \A p \in Procs :
        (tkreq[p].op = "issue" /\ tkreq[p].fault) =>
            /\ \A q \in Procs : tkpc[q] # "exited"
            /\ tkpc[p] = "done" => tkres[p].status = "Internal server error"

\* C18: a check/ request whose SELECT failed is answered with the Store
\* failure, not with success, "nonexistent token" or "token expired".
C18_ValidateStoreFailure ==
    \A p \in Procs :
        (CheckDone(p) /\ tkreq[p].fault) =>
            tkres[p].status \notin {"ok", "nonexistent token", "token expired"}

\* The lock task p is waiting for is held by task q.
WaitsOn(p, q) ==
    \/ rlpc[p] = "glock" /\ globalMux = q
    \/ rlpc[p] = "allow" /\ buckets[rlbucket[p]].mutex = q

\* C19: an IsAllowed call never waits for a lock that is held by a call for
\* a different key.
C19_NoWaitAcrossKeys ==
    \A p, q \in Procs :
        (p # q /\ WaitsOn(p, q)) => rlkey[p] = rlkey[q]

\* C19, for the buckets' own locks (the part that holds).
C19_HoldsForBucketLocks ==
    \A p, q \in Procs :
        (p # q /\ rlpc[p] = "allow" /\ buckets[rlbucket[p]].mutex = q)
            => rlkey[p] = rlkey[q]

\* One Allow call at clock reading t, run alone on bucket tb.
AllowAlone(tb, t) ==
    LET r == refill(tb, t)
    IN  IF HasToken(r) THEN [r EXCEPT !.tokens = @ - Unit] ELSE r

\* The bucket of key k after its first n calls, had they run one after the
\* other in the order of the log, each with its own clock reading.
RECURSIVE Sequential(_, _)
Sequential(k, n) ==
    IF n = 0
    THEN LET tb == buckets[limiters[k]]
         IN  [tb EXCEPT !.tokens = tb.capacity, !.lastRefillTime = tb.created,
                        !.mutex = None]
    ELSE AllowAlone(Sequential(k, n - 1), log[k][n].t)

\* C20: the Allow calls of a key, taken statement by statement, return what
\* they would return run one after the other in the order in which they held
\* the bucket's lock; their clock readings follow that order, and the bucket
\* they leave holds the token count and last refill time of that sequential
\* run (no decrement and no refill is lost).
C20_AllowLinearizable ==
    \A k \in Keys :
        /\ \A i \in 1..Len(log[k]) :
              /\ log[k][i].ok =
                    HasToken(refill(Sequential(k, i - 1), log[k][i].t))
              /\ log[k][i].post = Sequential(k, i).tokens
              /\ log[k][i].lr = Sequential(k, i).lastRefillTime
              /\ i > 1 => log[k][i - 1].t <= log[k][i].t
        /\ (limiters[k] # NoBucket /\ MutexFree(buckets[limiters[k]])) =>
              /\ buckets[limiters[k]].tokens
                    = Sequential(k, Len(log[k])).tokens
              /\ buckets[limiters[k]].lastRefillTime
                    = Sequential(k, Len(log[k])).lastRefillTime

\* C20 witness: two calls of one key overlapped, one waiting for the lock
\* while the other was past its refill, and an earlier call had been
\* admitted.
C20_Witness ==
    \E p, q \in Procs : \E k \in Keys :
        /\ rlkey[p] = k /\ rlkey[q] = k
        /\ rlpc[p] = "allow"
        /\ rlpc[q] \in {"refilled", "take", "return"}
        /\ Len(log[k]) > 0
        /\ log[k][1].ok

\* C21: under fair scheduling every IsAllowed call that has started
\* returns; and at every moment the holder of the global creation lock is
\* inside getLimiter's locked section, waiting for no bucket's lock and
\* holding none, while the holder of a bucket's lock is inside Allow,
\* waiting for no lock and not holding the global one (so the locks are
\* never nested and no cycle of waiting tasks can form).
C21_IsAllowedTerminates ==
    /\ \A p \in Procs : (rlpc[p] # "idle") ~> (rlpc[p] = "idle")
    /\ [](\A p \in Procs :
            /\ globalMux = p =>
                  /\ rlpc[p] = "create"
                  /\ \A b \in DOMAIN buckets : buckets[b].mutex # p
            /\ \A b \in DOMAIN buckets :
                  buckets[b].mutex = p =>
                      /\ rlpc[p] \in {"locked", "refilled", "take", "return"}
                      /\ rlbucket[p] = b)

\* C21 witness: a call has returned for a key while one task waits for the
\* global lock another task holds and the key's bucket exists.
C21_Witness ==
    \E p, q \in Procs :
        /\ rlpc[p] = "glock"
        /\ globalMux = q
        /\ \E k \in Keys : Len(log[k]) > 0

\* C22: an Issue that starts after an Issue for the same (client, scope) has
\* returned token t, and is decided while t has not expired, returns t
\* (and so inserts no row: an inserted row carries a new token value).
C22_SequentialIssueIdempotent ==
    \A p \in Procs :
        IssueDone(p) =>
            \A g \in tkreq[p].prior :
                ~Before(issued[g[1]].expiration_time, tkres[p].at)
                    => tkres[p].token = g[1]

\* C22 where the token table enforces one row per (client_id, scope).
C22_UnderUniqueRows == uniquePair => C22_SequentialIssueIdempotent

\* C23: the token table never holds two unexpired rows for one
\* (client_id, scope).
C23_OneUnexpiredRowPerPair ==
    \A r1, r2 \in tokenTable :
        (/\ r1.client_id = r2.client_id
         /\ r1.access_scope = r2.access_scope
         /\ ~Before(r1.expiration_time, now)
         /\ ~Before(r2.expiration_time, now))
        => r1 = r2

\* C23 where the token table enforces one row per (client_id, scope).
C23_UnderUniqueRows == uniquePair => C23_OneUnexpiredRowPerPair

\* The Issue of task p has been answered after its INSERT was refused
\* because another Issue had inserted a row for the pair first.
AnsweredAfterLostInsert(p) ==
    tkpc[p] = "done" /\ tkres[p].op = "issue" /\ tkfallback[p]

\* C24: an Issue whose INSERT lost against a concurrent Issue for the same
\* pair is not answered with an error: it returns a token that was inserted
\* for that pair.
C24_LostInsertReturnsToken ==
    \A p \in Procs :
        AnsweredAfterLostInsert(p) =>
            /\ tkres[p].status = "ok"
            /\ tkres[p].token \in 1..Len(issued)
            /\ issued[tkres[p].token].client_id = tkres[p].client
            /\ issued[tkres[p].token].access_scope = tkres[p].scope

\* C24, for the answers given before every row inserted so far has expired.
C24_HoldsBeforeExpiry ==
    (\A i \in 1..Len(issued) : ~Before(issued[i].expiration_time, now))
        => C24_LostInsertReturnsToken

\* C24 as amended: such an Issue re-reads the store and returns the token of
\* the row it read for the pair when that row has not expired at the expiry
\* test; when the re-read found no row or an expired one it is answered
\* "Internal server error".
C24_LostInsertRereads ==
    \A p \in Procs :
        AnsweredAfterLostInsert(p) =>
            IF tkrow[p] # NoRow /\ ~Before(tkrow[p].expiration_time, tkres[p].at)
            THEN /\ tkres[p].status = "ok"
                 /\ tkres[p].token = tkrow[p].access_token
                 /\ tkres[p].token \in 1..Len(issued)
                 /\ issued[tkres[p].token] = tkrow[p]
                 /\ tkrow[p].client_id = tkres[p].client
                 /\ tkrow[p].access_scope = tkres[p].scope
            ELSE /\ tkres[p].status = "Internal server error"
                 /\ tkres[p].token = NoToken

\* C24 witness: an Issue whose INSERT was refused returned the token that an
\* overlapping Issue for the pair had returned.
C24_Witness ==
    \E p, q \in Procs :
        /\ AnsweredAfterLostInsert(p)
        /\ tkres[p].status = "ok"
        /\ q \in tkconc[p]
        /\ IssueDone(q)
        /\ tkres[q].token = tkres[p].token

\* A Validate of p has found the token's row in the store and found it expired.
FoundExpired(p) ==
    /\ CheckDone(p)
    /\ tkres[p].found
    /\ tkrow[p] # NoRow
    /\ tkrow[p].access_token = tkres[p].token
    /\ Before(tkrow[p].expiration_time, tkres[p].at)

\* C25: a Validate that finds the token's row in the store expired fails with
\* ExpiredToken ("token expired") and the row is absent from the store
\* afterwards.
C25_ExpiredRowReaped ==
    \A p \in Procs :
        FoundExpired(p) =>
            /\ tkres[p].status = "token expired"
            /\ \A r \in tokenTable : r.access_token # tkres[p].token

\* C25, the half that holds: such a Validate fails with ExpiredToken.
C25_ExpiredReported ==
    \A p \in Procs : FoundExpired(p) => tkres[p].status = "token expired"

\* The step in which CheckToken of p looks tok up in the token cache.
CacheLookup(p, tok) ==
    /\ tkpc[p] = "idle"
    /\ tkpc'[p] \in {"check_query", "done"}
    /\ tkreq'[p].op = "check"
    /\ tkreq'[p].token = tok

\* The step in which CheckToken of p gets the answer to its SELECT.
StoreLookup(p) == tkpc[p] = "check_query" /\ tkpc'[p] # "check_query"

\* C26: a Validate that finds its token neither in the token cache nor in
\* the store goes from the cache to the store and fails there with
\* InvalidToken ("nonexistent token"), and neither step changes the token
\* cache, the clients' cached tokens or the store.
C26_UnknownTokenInvalid ==
    [][\A p \in Procs :
          /\ \A tok \in TokenValues :
                 CacheLookup(p, tok) /\ tokens[tok] = NoInfo =>
                     /\ tkpc'[p] = "check_query"
                     /\ UNCHANGED <<tokens, users, tokenTable>>
          /\ (StoreLookup(p)
                 /\ \A r \in tokenTable : r.access_token # tkreq[p].token) =>
                 /\ tkpc'[p] = "done"
                 /\ tkres'[p].op = "check"
                 /\ tkres'[p].status = "nonexistent token"
                 /\ tkres'[p].client = ""
                 /\ UNCHANGED <<tokens, users, tokenTable>>]_vars

\* C26 witness: a Validate of a token the store does not hold has failed with
\* InvalidToken while the store, the token cache and a client's cached
\* tokens were not empty.
C26_Witness ==
    \E p \in Procs :
        /\ CheckDone(p)
        /\ tkres[p].status = "nonexistent token"
        /\ ~tkres[p].found
        /\ tokenTable # {}
        /\ \E tok \in TokenValues : tokens[tok] # NoInfo
        /\ \E c \in DOMAIN users : \E i \in 1..Len(users[c].Tokens) :
               users[c].Tokens[i] # NoToken

\* The cache entry tok has the client, scope and expiration of the row the
\* store held for tok.
EntryOfStoredRow(tok) ==
    /\ tok \in 1..Len(issued)
    /\ issued[tok].access_token = tok
    /\ tokens[tok].ClientID = issued[tok].client_id
    /\ tokens[tok].AccessScope = issued[tok].access_scope
    /\ tokens[tok].ExpirationTime = issued[tok].expiration_time

\* The step in which a Validate of p that has read the unexpired row of tok
\* from the store finishes.
ValidateReadsUnexpired(p, tok) ==
    /\ tkpc[p] = "check_expiry"
    /\ tkpc'[p] = "check_user"
    /\ tkreq[p].token = tok
    /\ tkrow[p] \in tokenTable \cup {issued[i] : i \in 1..Len(issued)}
    /\ tkrow[p].access_token = tok
    /\ ~Before(tkrow[p].expiration_time, now)

\* C27: every entry of the token cache equals the row the store held for its
\* token, an entry appears or changes only in the step of a Validate that
\* read the token's unexpired row, and every successful Validate returns the
\* client and scope of the row the store held for the token, so that a token
\* the store never held is never accepted.
C27_CacheMirrorsStore ==
    /\ [](\A tok \in TokenValues : tokens[tok] # NoInfo => EntryOfStoredRow(tok))
    /\ [](\A p \in Procs :
             CheckDone(p) /\ tkres[p].status = "ok" =>
                 /\ tkres[p].token \in 1..Len(issued)
                 /\ tkres[p].client = issued[tkres[p].token].client_id
                 /\ tkres[p].scope = issued[tkres[p].token].access_scope)
    /\ [][\A tok \in TokenValues :
              tokens'[tok] # NoInfo /\ tokens'[tok] # tokens[tok] =>
                  \E p \in Procs : ValidateReadsUnexpired(p, tok)]_vars

\* C27 witness: a Validate served by the token cache has returned the client
\* and scope of the token's row in the store.
C27_Witness ==
    \E p \in Procs :
        /\ CheckDone(p)
        /\ tkres[p].status = "ok"
        /\ tkres[p].cached
        /\ tokens[tkres[p].token] # NoInfo
        /\ \E r \in tokenTable :
               /\ r.access_token = tkres[p].token
               /\ tokens[tkres[p].token] = TokenInfoOf(r)
               /\ tkres[p].client = r.client_id
               /\ tkres[p].scope = r.access_scope

\* The client's cached token of the scope: the slot SetUserToken writes.
CachedTokenOf(us, id, scope) ==
    IF id \in DOMAIN us
    THEN LET slots == {i \in 1..Len(us[id].Tokens) : us[id].Scopes[i] = scope}
         IN  IF slots = {} THEN NoToken ELSE us[id].Tokens[FirstOf(slots)]
    ELSE NoToken

\* The step in which a Validate of p is served from the token cache.
ServedFromCache(p) ==
    /\ tkpc[p] = "idle"
    /\ tkpc'[p] = "done"
    /\ tkres'[p].op = "check"
    /\ tkres'[p].status = "ok"
    /\ tkres'[p].cached

\* C28: a Validate served from the token cache returns in the step of the
\* cache look-up, and after that step the client's cached token of the scope
\* is the validated token.
C28_CacheHitRefreshesSlot ==
    [][\A p \in Procs :
          ServedFromCache(p) =>
              CachedTokenOf(users', tkres'[p].client, tkres'[p].scope)
                  = tkres'[p].token]_vars

\* C28, the half that holds: an unexpired entry of the token cache answers
\* the Validate in the step of the look-up, with the entry's client and
\* scope and without a query to the store.
C28_CacheHitImmediate ==
    [][\A p \in Procs : \A tok \in TokenValues :
          (CacheLookup(p, tok) /\ tokens[tok] # NoInfo
              /\ After(tokens[tok].ExpirationTime, now)) =>
              /\ ServedFromCache(p)
              /\ tkres'[p].client = tokens[tok].ClientID
              /\ tkres'[p].scope = tokens[tok].AccessScope
              /\ UNCHANGED <<tokens, tokenTable, tkrow>>]_vars

\* The rate limiter's state: its parameters, the map from keys to buckets and
\* the buckets with their tokens, last refill times and mutexes.
LimiterState == <<capacity, fillRate, limiters, buckets, globalMux>>

\* A step of the token/ or check/ handler, AddToken and CheckToken included.
ServiceStep ==
    \/ tkpc' # tkpc
    \/ TokenState' # TokenState
    \/ tkres' # tkres

\* C29: no step of Issue or Validate changes the rate limiter's state: the
\* key-to-bucket map and every bucket's tokens and last refill time are
\* after the step what they were before it.
C29_ServiceLeavesLimiter ==
    [][ServiceStep => UNCHANGED LimiterState]_vars

\* C29 witness: behind the middleware an Issue and a Validate have both
\* succeeded while the client's bucket exists and has given out a token.
C29_Witness ==
    \E p, q \in Procs :
        /\ IssueDone(p)
        /\ CheckDone(q) /\ tkres[q].status = "ok"
        /\ \E k \in Keys :
               /\ limiters[k] # NoBucket
               /\ buckets[limiters[k]].tokens < buckets[limiters[k]].capacity

\* C30: the registry has the clients loaded at bootstrap and no others, each
\* with the secret and the permitted scopes it was loaded with and with one
\* cached-token slot per scope; Issue and Validate change nothing of a
\* client but the tokens in those slots.
C30_RegistryReadOnly ==
    /\ DOMAIN users = DOMAIN Registry
    /\ \A c \in DOMAIN Registry :
           /\ users[c].ClientSecret = Registry[c].ClientSecret
           /\ users[c].Scopes = Registry[c].Scopes
           /\ DOMAIN users[c].Tokens = DOMAIN Registry[c].Scopes

\* C30 witness: an Issue and a Validate have been answered and a client's
\* cached token of a scope has been set.
C30_Witness ==
    /\ \E p \in Procs : IssueDone(p)
    /\ \E q \in Procs : CheckDone(q) /\ tkres[q].status = "ok"
    /\ \E c \in DOMAIN users : \E i \in DOMAIN users[c].Tokens :
           users[c].Tokens[i] # NoToken

\* The step in which task p calls IsAllowed and makes getLimiter's first
\* look-up.
FirstLookup(p) == rlpc[p] = "idle" /\ rlpc'[p] # "idle"

\* C31: a call whose first look-up finds the key's bucket goes on to Allow
\* with that bucket and never waits for or holds the global lock; the global
\* lock is acquired only by a call whose first look-up found no bucket.
C31_FastPathSkipsGlobalLock ==
    /\ [][\A p \in Procs :
              /\ (FirstLookup(p) /\ limiters[rlkey'[p]] # NoBucket) =>
                     /\ rlpc'[p] = "allow"
                     /\ rlbucket'[p] = limiters[rlkey'[p]]
                     /\ ~rlfirst'[p]
                     /\ globalMux' = globalMux
              /\ (FirstLookup(p) /\ limiters[rlkey'[p]] = NoBucket) =>
                     rlfirst'[p]
              /\ (globalMux' = p /\ globalMux # p) => rlfirst[p]
              /\ (rlpc[p] # "idle" /\ rlpc'[p] # "idle") =>
                     rlfirst'[p] = rlfirst[p]]_vars
    /\ [](\A p \in Procs :
             (rlpc[p] \in {"glock", "create"} \/ globalMux = p) => rlfirst[p])

\* C31 witness: a call that found its key's bucket at the first look-up is
\* in Allow while another call holds the global lock.
C31_Witness ==
    \E p, q \in Procs :
        /\ rlpc[p] \in {"allow", "locked"}
        /\ ~rlfirst[p]
        /\ limiters[rlkey[p]] # NoBucket
        /\ globalMux = q

\* The clock readings a refill is asked about.
ClockReadings == 0..MaxTime

\* refill of the bucket tb at the readings in T: tokens do not decrease,
\* lastRefillTime does not go back, a reading that is not after
\* lastRefillTime changes nothing, and a later reading gives no fewer tokens
\* than an earlier one.
RefillMonotonicOver(tb, T) ==
    \A t \in T :
        LET r == refill(tb, t)
        IN  /\ r.tokens >= tb.tokens
            /\ r.lastRefillTime >= tb.lastRefillTime
            /\ t <= tb.lastRefillTime => r = tb
            /\ \A u \in T : t <= u => r.tokens <= refill(tb, u).tokens

\* C32: refill is monotonic for every bucket the limiter holds and every
\* clock reading, the readings equal to or earlier than last_refill included.
C32_RefillMonotonic ==
    \A b \in DOMAIN buckets : RefillMonotonicOver(buckets[b], ClockReadings)

\* C32, for the configurations with a fill rate >= 0 (the part that holds).
C32_HoldsForNonNegativeRate ==
    fillRate >= 0 => C32_RefillMonotonic

\* C32, for the clock readings that are not earlier than last_refill: it
\* holds for every configuration.
C32_HoldsForMonotonicClock ==
    \A b \in DOMAIN buckets :
        RefillMonotonicOver(buckets[b],
            {t \in ClockReadings : t >= buckets[b].lastRefillTime})

\* C33: GetAllUsers returns only after a load that read exactly a page of
\* rows, with exactly those rows stored in the registry; until then the
\* registry is empty, and a load that read any other number of rows stores
\* nothing and is followed by the next round.
C33_BootNeedsCompletePage ==
    /\ [](bootpc = "serving" =>
             /\ Cardinality(bootseen) = PageSize
             /\ DOMAIN users = bootseen
             /\ \A c \in bootseen : users[c] = LoadedUser(UserRow(c)))
    /\ [](bootpc # "serving" => DOMAIN users = {})
    /\ [][(bootpc = "loaded" /\ Cardinality(bootseen) # PageSize
              /\ bootpc' # bootpc) =>
              (bootpc' = "query" /\ users' = users)]_vars

\* C33 witness: GetAllUsers has returned after more than one load, with the
\* page it read stored, while the user table has changed since that load.
C33_Witness ==
    /\ bootpc = "serving"
    /\ bootloads > 1
    /\ Cardinality(userTable) # PageSize

\* Task p is about to read the cached token of (c, scope) in AddToken's loop
\* over user.Tokens.
SlotRead(p, c, scope) ==
    /\ tkpc[p] = "addtoken"
    /\ tkreq[p].ClientId = c
    /\ tkreq[p].Scope = scope

\* Task p is about to write the cached token of (c, scope) in CheckToken.
SlotWrite(p, c, scope) ==
    /\ tkpc[p] = "check_user"
    /\ tkrow[p].client_id = c
    /\ tkrow[p].access_scope = scope

\* C34: no write of a client's cached token of a scope is in progress
\* together with a read or another write of the same slot by another task.
C34_SlotAccessExclusive ==
    \A p, q \in Procs : \A c \in DOMAIN users :
        \A i \in DOMAIN users[c].Scopes :
            (p # q /\ SlotWrite(p, c, users[c].Scopes[i])) =>
                /\ ~SlotRead(q, c, users[c].Scopes[i])
                /\ ~SlotWrite(q, c, users[c].Scopes[i])

\* The key of the IsAllowed call of task p that takes a step.
SteppingKey(p) == IF rlpc[p] = "idle" THEN rlkey'[p] ELSE rlkey[p]

\* C35: a step of an IsAllowed call for key k leaves every other key's
\* mapping and every other bucket as they were, and changes k's mapping
\* only by adding it when the key had none.
C35_CallTouchesOwnKeyOnly ==
    [][\A p \in Procs :
          rlpc'[p] # rlpc[p] =>
              /\ \A j \in Keys \ {SteppingKey(p)} : limiters'[j] = limiters[j]
              /\ \A b \in DOMAIN buckets :
                     buckets[b].key # SteppingKey(p) => buckets'[b] = buckets[b]
              /\ \A b \in DOMAIN buckets' \ DOMAIN buckets :
                     buckets'[b].key = SteppingKey(p)
              /\ limiters'[SteppingKey(p)] # limiters[SteppingKey(p)] =>
                     /\ limiters[SteppingKey(p)] = NoBucket
                     /\ rlfirst[p]]_vars

\* C35 witness: a call for one key was admitted after the other key's bucket
\* was created, and that bucket is still full.
C35_Witness ==
    \E k, j \in Keys :
        /\ k # j
        /\ limiters[j] # NoBucket
        /\ buckets[limiters[j]].tokens = capacity
        /\ \E i \in 1..Len(log[k]) :
               /\ log[k][i].ok
               /\ log[k][i].t >= buckets[limiters[j]].created
               /\ ~log[k][i].first

\* The calls for key k that were admitted with a clock reading in [a, b].
AdmittedIn(k, a, b) ==
    {i \in 1..Len(log[k]) :
        log[k][i].ok /\ a <= log[k][i].t /\ log[k][i].t <= b}

\* In every window [a, b] of clock readings the calls admitted for k take no
\* more than capacity + (b - a) * fill_rate tokens.
RateBound(k) ==
    \A a, b \in ClockReadings :
        a <= b =>
            Cardinality(AdmittedIn(k, a, b)) * Unit
                <= capacity + (b - a) * fillRate

\* C36: for every key and every window of length d the number of admitted
\* calls is at most capacity + d * fill_rate.
C36_RateBound ==
    \A k \in Keys : RateBound(k)

\* C36, for the configurations with capacity >= 0 and fill rate >= 0 (the
\* part that holds).
C36_HoldsForNonNegativeConfig ==
    (capacity >= 0 /\ fillRate >= 0) => C36_RateBound

\* C36, with Allow taken statement by statement by concurrent callers, a
\* call counted at the clock reading of its refill.
C36_HoldsInEveryInterleaving ==
    \A k \in Keys : RateBound(k)

\* Task p is serving a check/ request of the peer with the bearer token tok.
CheckInFlight(p, tok) ==
    /\ gwpc[p] # "idle"
    /\ gwreq[p].path = "/check/"
    /\ gwreq[p].token = tok

\* The store holds an unexpired row for tok.
ValidToken(tok) ==
    \E r \in tokenTable :
        r.access_token = tok /\ ~Before(r.expiration_time, now)

\* C37: the check/ requests of the one peer that carry the same valid token
\* are charged to the same bucket key, whether or not the token is in the
\* token cache when the request arrives.
C37_CheckKeyIndependentOfCache ==
    \A p, q \in Procs : \A tok \in TokenValues :
        (CheckInFlight(p, tok) /\ CheckInFlight(q, tok) /\ ValidToken(tok))
            => gwreq[p].key = gwreq[q].key

\* The outcome of a validator without a cache that has read the rows of the
\* token from the store and compares the expiration with the time t.
CachelessOutcome(rows, t) ==
    IF rows = {}
    THEN <<"nonexistent token", "", "">>
    ELSE LET r == CHOOSE x \in rows : TRUE
         IN  IF r.expiration_time < t
             THEN <<"token expired", "", "">>
             ELSE <<"ok", r.client_id, r.access_scope>>

\* The step in which CheckToken of p decides what it returns.
CheckDecides(p) == tkres'[p] # tkres[p] /\ tkres'[p].op = "check"

\* The rows of the token a validator without a cache has before it at that
\* step: the row CheckToken has read when it is at its expiry test, the
\* store's rows of the token otherwise.
RowsBefore(p) ==
    IF tkpc[p] = "check_expiry"
    THEN {tkrow[p]}
    ELSE {r \in tokenTable : r.access_token = tkres'[p].token}

\* C38: whatever the token cache holds, CheckToken decides on the outcome
\* (client and scope, InvalidToken or ExpiredToken) that a validator without
\* a cache gives for the store's row at the time of the decision, the
\* instant of the expiration time included; the store holds at most one row
\* per token and loses a row only after its expiration time.
C38_CacheTransparent ==
    /\ [][\A p \in Procs :
              CheckDecides(p) =>
                  <<tkres'[p].status, tkres'[p].client, tkres'[p].scope>>
                      = CachelessOutcome(RowsBefore(p), now)]_vars
    /\ [][\A r \in tokenTable : r \notin tokenTable' => r.expiration_time < now]_vars
    /\ [](\A r1, r2 \in tokenTable :
             r1.access_token = r2.access_token => r1 = r2)

\* C38 witness: a token validated before its expiration time, which put it
\* into the token cache, is validated again at the instant of its expiration
\* time and accepted from the store.
C38_Witness ==
    \E p, q \in Procs :
        /\ CheckDone(p) /\ tkres[p].status = "ok"
        /\ CheckDone(q) /\ tkres[q].status = "ok"
        /\ tkres[p].token = tkres[q].token
        /\ tkres[p].at < issued[tkres[p].token].expiration_time
        /\ tkres[q].at = issued[tkres[q].token].expiration_time
        /\ ~tkres[q].cached
        /\ tokens[tkres[q].token] # NoInfo

\* ------------------------------------------------------------------------
\* Properties of the transcoding service

Terminal(s) == s \in {COMPLETED, FAILED}

AllTerminal(c) == \A i \in 1..Len(tcjob[c]) : Terminal(tcjob[c][i])

\* A job that is COMPLETED or FAILED keeps its status.
TerminalStays ==
    \A c \in Calls : \A i \in 1..Len(tcjob[c]) :
        Terminal(tcjob[c][i]) => tcjob'[c][i] = tcjob[c][i]

\* A job of a call has left QUEUED only if every job the call created
\* before it is terminal: one job at a time, in creation order.
OneAtATimeInOrder ==
    \A c \in Calls : \A i, j \in 1..Len(tcjob[c]) :
        (i < j /\ tcjob[c][j] # QUEUED) => Terminal(tcjob[c][i])

\* NotifyTranscodingComplete was invoked at most once for a call, and only
\* for a call that returned nil and whose jobs are all terminal.
NotifiedAfterJobs ==
    \A c \in Calls :
        /\ Len(tcnotes[c]) <= 1
        /\ tcnotes[c] # <<>> => (tcret[c] = "ok" /\ AllTerminal(c))

\* C39: after a StartTranscoding call has returned nil, and with every
\* TranscodeVideo call returning, every job of the call eventually is
\* COMPLETED or FAILED and keeps that status, the jobs are processed one at a
\* time in creation order, and NotifyTranscodingComplete is invoked exactly
\* once for the call, only after all of its jobs are terminal.
C39_JobsFinishNotifiedOnce ==
    /\ \A c \in Calls :
           (tcret[c] = "ok") ~> (AllTerminal(c) /\ Len(tcnotes[c]) = 1)
    /\ [][TerminalStays]_vars
    /\ []OneAtATimeInOrder
    /\ []NotifiedAfterJobs

\* C39 witness: two calls for the video returned nil, each made two jobs,
\* all of them are terminal and each call was notified once.
C39_Witness ==
    \A c \in {1, 2} :
        /\ tcret[c] = "ok"
        /\ Len(tcjob[c]) = 2
        /\ AllTerminal(c)
        /\ Len(tcnotes[c]) = 1

\* Every job list of up to MaxJobs jobs, over every status.
StatusLists ==
    UNION {[1..n -> {UNSPECIFIED, QUEUED, PROCESSING, COMPLETED, FAILED}] :
           n \in 1..MaxJobs}

\* The overall status of a non-empty job list as the specification words it.
StatusAsStated(js) ==
    LET r == calculateOverallStatus(js)
        busy == HasStatus(js, QUEUED) \/ HasStatus(js, PROCESSING)
    IN  /\ r = PROCESSING <=> busy
        /\ ~busy => /\ r = FAILED <=>
                          (HasStatus(js, FAILED) /\ ~HasStatus(js, COMPLETED))
                    /\ r # FAILED => r = COMPLETED

\* Processing of a video has finished: a goroutine for it has run to its end
\* and no StartTranscoding call for it has a goroutine still running.
ProcessingFinished(v) ==
    /\ \E c \in Calls : tcvideo[c] = v /\ tcpc[c] = "done"
    /\ \A c \in Calls : tcvideo[c] = v => tcpc[c] \in {"none", "done"}

\* The status recorded in memory for the video is calculateOverallStatus of
\* the jobs its jobState holds.
RecordedStatusMatches(v) ==
    jobs[v].status = calculateOverallStatus(JobsOf(jobs[v]))

\* C40: calculateOverallStatus of a non-empty job list is PROCESSING exactly
\* when a job is QUEUED or PROCESSING, otherwise FAILED exactly when a job
\* FAILED and none COMPLETED, and COMPLETED in every remaining case; and once
\* processing of a video has finished, the overall status recorded in memory
\* for it is this function of its jobs.
C40_OverallStatus ==
    /\ \A js \in StatusLists : StatusAsStated(js)
    /\ \A v \in Videos : ProcessingFinished(v) => RecordedStatusMatches(v)

\* C40, the function alone: on every job list calculateOverallStatus is as
\* stated, also on the lists a running service holds.
C40_StatusFunctionAsStated ==
    /\ \A js \in StatusLists : StatusAsStated(js)
    /\ \A c \in Calls : tcjob[c] # <<>> => StatusAsStated(tcjob[c])

\* C40, one StartTranscoding call per video: the recorded status is the
\* function of the jobs once processing has finished.
C40_HoldsForSingleStart ==
    \A v \in Videos :
        (Cardinality({c \in Calls : tcvideo[c] = v /\ tcret[c] = "ok"}) <= 1
         /\ ProcessingFinished(v)) => RecordedStatusMatches(v)

====
